---------------------------- MODULE Spec2Model ----------------------------
(***************************************************************************)
(* Checkpointed batch pipeline of the RFAntibody harness:                  *)
(*   harness/pipeline/quiver_utils.py   count_entries, split, merge        *)
(*   harness/pipeline/orchestrator.py   PipelineOrchestrator               *)
(*   harness/pipeline/parallel.py       run_stage_parallel                 *)
(*   harness/pipeline/_subprocess.py    run_pipeline_command               *)
(*   harness/cli.py                     main, validate, analyze            *)
(*   harness/config/schema.py           load_config, validate              *)
(*   harness/target_prep/fetch_pdb.py   fetch_pdb, _download               *)
(*   scripts/run_cancer_drivers_modal.py  main, run_campaign               *)
(*                                                                         *)
(* A file is the sequence of its characters.  The six characters of the    *)
(* tag marker are one token, QV_TAG_PREFIX; "\n" and "\r" are the line     *)
(* terminators Python's text mode knows; every other string is a payload   *)
(* character.                                                              *)
(***************************************************************************)
EXTENDS Integers, Sequences, FiniteSets, TLC

VARIABLES
    \* ---- quiver_utils: one split followed by one merge
    qpc,            \* "start" | "files" | "split" | "merged"
    qInput,         \* bytes of the file given to split
    qBatchSize,     \* batch_size given to split
    qBatches,       \* bytes of batch_0000.qv, batch_0001.qv, ... as returned
    qMerged,        \* bytes of the merge's output file
    qTotal,         \* the value merge returned
    \* ---- PipelineOrchestrator: the work directory
    num_designs,    \* config.pipeline.rfdiffusion.num_designs
    out,            \* bytes of 01_backbones.qv, 02_sequences.qv, 03_predictions.qv
    cp,             \* .checkpoint_stage1..3: "none" | "partial" | "written"
    bdir,           \* whether stage2_batches / stage3_batches exists
    marker,         \* .split_complete of each batch directory
    bIn,            \* batch_NNNN.qv of each batch directory
    bOut,           \* output_NNNN.qv of each batch directory
    bCp,            \* .checkpoint_batch_NNNN of each batch directory
    \* ---- PipelineOrchestrator: the invocation in progress
    pc,             \* position in run() or clear_checkpoints()
    stage,          \* the stage run() is at
    batch_inputs,   \* _run_batched_stage: the batch files, by their number
    i,              \* _run_batched_stage: the loop index
    batch_idx,      \* split: batch files flushed so far
    nmerged,        \* merge: files of qv_files written so far
    \* ---- history of the invocations
    ran,            \* <<stage, batch>> of every stage program started in this run
    ops,            \* <<"enter" | "split" | "merge", stage>> done in this run
    succeeded,      \* stages whose latest un-batched execution returned success
    startCp,        \* stages whose checkpoint existed when this run began
    startBCp,       \* per batched stage, batches whose checkpoint existed then
    crashedIn,      \* stage inside whose batched run the latest run was killed
    resumed,        \* stage inside whose batched run the previous run was killed
    coldStart,      \* "no" | "fresh" | "full": this run follows clear_checkpoints()
    \* ---- run_stage_parallel: the work directory
    num_gpus,       \* num_gpus given to run_stage_parallel
    pInput,         \* bytes of input_qv
    pfiles,         \* the chunk*.qv files of work_dir, by <<chunk, number of "_out">>
    pmerged,        \* bytes of {stem}_merged.qv
    \* ---- run_stage_parallel: the call in progress
    ppc,            \* position of the dispatching thread
    chunks,         \* the list _split_quiver returned
    outputs,        \* the list outputs
    threads,        \* per worker: "running" | "ok" | "failed"
    devices,        \* per worker: its CUDA_VISIBLE_DEVICES
    failures,       \* the list failures: <<gid, exception>>
    joined,         \* threads the join loop is through
    perror,         \* the RuntimeError raised: gpu ids named and detail
    \* ---- history of the dispatches
    produced,       \* per worker: the bytes it wrote on success
    finishOrder,    \* workers in the order they finished
    mergedNow,      \* whether this dispatch opened the merged file
    redispatched,   \* whether run_stage_parallel was called a second time
    \* ---- run_pipeline_command: one call
    cpc,            \* position of the caller
    hasTimeout,     \* whether timeout is not None
    timeout,        \* timeout, in ticks
    program,        \* what the external program does: "exits" | "hangs_open" | "hangs_closed"
    exitStatus,     \* the status the program exits with, if it exits
    proc,           \* the child: "none" | "running" | "closed" | "exited" | "killed"
    toWrite,        \* lines the program has still to write
    pipe,           \* lines written to proc.stdout and not yet read
    stdout_lines,   \* the list stdout_lines
    elapsed,        \* ticks since Popen
    waited,         \* ticks since proc.wait(timeout) was entered
    completed,      \* the CompletedProcess returned: <<returncode, stdout>>
    exc,            \* the exception that left the call
    environ,        \* os.environ
    env,            \* the argument env (None is the empty dict)
    run_env,        \* the environment given to Popen
    \* ---- cli: the analyze command
    analysis,       \* what _cmd_analyze did: <<>> | <<"refused">> | <<"ran", bytes, checkpoint>>
    \* ---- cli: main(argv) with no command or with validate
    mpc,            \* "off" | "idle" | "handler" | "done"
    command,        \* args.command: "none" | "validate"
    yaml,           \* the file args.config names
    ret,            \* how main ended: <<"returned", code>> | <<"raised", exception>>
    \* ---- fetch_pdb: the calls of _download on one output_dir
    fpc,            \* "off" | "idle" | "open" | "read" | "returned" | "raised"
    pdb_id,         \* the argument pdb_id
    fmt,            \* the format being retrieved: "pdb" | "cif"
    fetched,        \* the files of output_dir, by <<pdb_id, format>>
    fret,           \* how the call ended: <<"returned", format>> | <<"raised", exception>>
    cutShort,       \* the files a failed urlretrieve had created before it raised
    \* ---- run_cancer_drivers_modal: the runs of the batch runner
    bpc,            \* main: "off" | "idle" | "loaded" | "running"
    reset,          \* the option --reset of the run in progress
    runs,           \* runs started so far
    volume,         \* "campaigns" of .batch_state.json as committed to the Volume
    prior_completed,\* main: the set prior_completed
    container,      \* per campaign: "off" | "running" | "ended" | "loaded" | "done"
    result,         \* per campaign: result["success"] of its latest container
    state,          \* per campaign: the dict state its container loaded
    \* ---- run_cancer_drivers: one call of run_parallel
    lpc,            \* "off" | "submit" | "wait" | "returned"
    n_configs,      \* len(configs)
    max_workers,    \* the argument max_workers (--parallel N)
    cuda,           \* CUDA_VISIBLE_DEVICES of the campaigns submitted, in order
    futures,        \* per campaign submitted: "pending" | "running" | "finished" | "done"
    results         \* the list results: campaigns in the order as_completed gave them

qvars == <<qpc, qInput, qBatchSize, qBatches, qMerged, qTotal>>

disk == <<out, cp, bdir, marker, bIn, bOut, bCp>>
locals == <<pc, stage, batch_inputs, i, batch_idx, nmerged>>
hist == <<ran, ops, succeeded, startCp, startBCp, crashedIn, resumed, coldStart>>
ovars == <<num_designs, disk, locals, hist>>

pdisk == <<pfiles, pmerged>>
pcall == <<ppc, chunks, outputs, threads, devices, failures, joined, perror>>
phist == <<produced, finishOrder, mergedNow, redispatched>>
pvars == <<num_gpus, pInput, pdisk, pcall, phist>>

\* the arguments of the call and what the program is going to do
cin == <<hasTimeout, timeout, program, exitStatus, environ, env>>
\* how the call ended
cend == <<completed, exc>>

cvars == <<cpc, cin, proc, toWrite, pipe, stdout_lines, elapsed, waited, cend, run_env>>

avars == <<analysis>>

mvars == <<mpc, command, yaml, ret>>

fvars == <<fpc, pdb_id, fmt, fetched, fret, cutShort>>

bvars == <<bpc, reset, runs, volume, prior_completed, container, result, state>>

lvars == <<lpc, n_configs, max_workers, cuda, futures, results>>

\* the components added to the four above
rest == <<avars, mvars, fvars, bvars, lvars>>

\* what the actions of one component leave alone
notOrch == <<qvars, pvars, cvars, rest>>
notCodec == <<ovars, pvars, cvars, rest>>
notPar == <<qvars, ovars, cvars, rest>>
notCmd == <<qvars, ovars, pvars, rest>>
notAnalyze == <<qvars, ovars, pvars, cvars, mvars, fvars, bvars, lvars>>
notMain == <<qvars, ovars, pvars, cvars, avars, fvars, bvars, lvars>>
notFetch == <<qvars, ovars, pvars, cvars, avars, mvars, bvars, lvars>>
notModal == <<qvars, ovars, pvars, cvars, avars, mvars, fvars, lvars>>
notLocal == <<qvars, ovars, pvars, cvars, avars, mvars, fvars, bvars>>

vars == <<qvars, ovars, pvars, cvars, rest>>

------------------------------------------------------------------------------
(* Bounds *)

\* longest file, in characters, given to split in SpecCodec
MaxLen == 5
\* largest batch_size given to split in SpecCodec
MaxBatchSize == 3
\* largest num_designs of a campaign
MaxDesigns == 4
\* largest num_gpus given to run_stage_parallel
MaxGpus == 2
\* largest timeout given to run_pipeline_command, in ticks
MaxTimeout == 2
\* ticks counted after Popen (the clock stands still beyond)
MaxClock == 3
\* most lines the external program writes
MaxLines == 2
MaxBlocks == 2
\* most files in a list given to merge in SpecMerge, and their longest
MaxFiles == 2
\* most campaigns given to run_parallel and largest --parallel N
MaxConfigs == 4
MaxWorkers == 3
MaxFileLen == 2
MaxCampaigns == 2
MaxRuns == 2
\* The number of characters of output kept in the error message, scaled
\* down from the 5000 of the source so that MaxLines lines exceed it.
TAIL_CHARS == 2
\* The per-stage batch sizes, scaled down from the 1000 and 5000 of the
\* source so that a collection of MaxDesigns records exceeds them; the code
\* only compares n_entries with them and hands them to split.
STAGE2_BATCH_SIZE == 2
STAGE3_BATCH_SIZE == 3

------------------------------------------------------------------------------
(* Text files *)

QV_TAG_PREFIX == "QV_TAG"
LF == "\n"
CR == "\r"

\* the characters of the files SpecCodec enumerates
Alphabet == {QV_TAG_PREFIX, "a", LF, CR}

RECURSIVE SeqsUpTo(_, _)
SeqsUpTo(S, n) ==
    IF n = 0 THEN {<<>>}
    ELSE LET shorter == SeqsUpTo(S, n - 1)
         IN  shorter \cup {Append(s, c) : s \in {t \in shorter : Len(t) = n - 1}, c \in S}

\* open(path) / Path.read_text(): text mode with newline=None translates
\* "\r\n" and a lone "\r" to "\n" while reading.
RECURSIVE ReadText(_)
ReadText(bytes) ==
    IF bytes = <<>> THEN <<>>
    ELSE IF Head(bytes) = CR
         THEN IF Len(bytes) >= 2 /\ bytes[2] = LF
              THEN <<LF>> \o ReadText(SubSeq(bytes, 3, Len(bytes)))
              ELSE <<LF>> \o ReadText(Tail(bytes))
         ELSE <<Head(bytes)>> \o ReadText(Tail(bytes))

\* Path.write_text(s) / open(path, "w").write(s): on POSIX os.linesep is "\n",
\* so the characters are written as they are.
WriteText(str) == str

\* "for line in f": the lines of a text, each with its terminator, the last
\* one possibly without.
RECURSIVE LinesFrom(_, _)
LinesFrom(str, cur) ==
    IF str = <<>> THEN (IF cur = <<>> THEN <<>> ELSE <<cur>>)
    ELSE IF Head(str) = LF
         THEN <<Append(cur, LF)>> \o LinesFrom(Tail(str), <<>>)
         ELSE LinesFrom(Tail(str), Append(cur, Head(str)))

Lines(str) == LinesFrom(str, <<>>)

\* line.startswith(QV_TAG_PREFIX)
StartsWithTag(line) == line # <<>> /\ line[1] = QV_TAG_PREFIX

RECURSIVE Concat(_)
Concat(seqs) ==
    IF seqs = <<>> THEN <<>> ELSE Head(seqs) \o Concat(Tail(seqs))

\* count_entries(qv_path)
count_entries(bytes) ==
    Cardinality({k \in DOMAIN Lines(ReadText(bytes)) :
                    StartsWithTag(Lines(ReadText(bytes))[k])})

------------------------------------------------------------------------------
(* split *)

\* The loop of split over the lines read so far: the batches flushed, the
\* lines of the current batch and its count of tag lines.
RECURSIVE SplitLoop(_, _, _, _, _)
SplitLoop(lines, batch_size, batches, current_lines, current_count) ==
    IF lines = <<>>
    THEN \* the final _flush()
         IF current_lines = <<>> THEN batches
         ELSE Append(batches, WriteText(Concat(current_lines)))
    ELSE LET line    == Head(lines)
             flush   == StartsWithTag(line) /\ current_count >= batch_size
             \* _flush() returns without writing when current_lines is empty
             flushed == IF flush /\ current_lines # <<>>
                        THEN Append(batches, WriteText(Concat(current_lines)))
                        ELSE batches
             kept    == IF flush THEN <<>> ELSE current_lines
             cnt     == IF flush /\ current_lines # <<>> THEN 0 ELSE current_count
         IN  SplitLoop(Tail(lines), batch_size, flushed, Append(kept, line),
                       IF StartsWithTag(line) THEN cnt + 1 ELSE cnt)

\* split with the flush test written "current_count > batch_size"
split_above_batch_size(bytes, batch_size) ==
    SplitLoop(Lines(ReadText(bytes)), batch_size + 1, <<>>, <<>>, 0)

\* split(qv_path, batch_size, batch_dir): the bytes of the batch files, in the
\* order of the returned list.
split(bytes, batch_size) ==
    SplitLoop(Lines(ReadText(bytes)), batch_size, <<>>, <<>>, 0)

------------------------------------------------------------------------------
(* merge *)

NoFile == <<"<absent>">>

\* content.count("\nQV_TAG") + (1 if content.startswith("QV_TAG") else 0)
TagCount(content) ==
    Cardinality({k \in 1..(Len(content) - 1) :
                    content[k] = LF /\ content[k + 1] = QV_TAG_PREFIX})
    + (IF StartsWithTag(content) THEN 1 ELSE 0)

\* merge(qv_files, output_path): the bytes written to output_path; a file of
\* the list that does not exist is passed over.
RECURSIVE MergeBytes(_)
MergeBytes(files) ==
    IF files = <<>> THEN <<>>
    ELSE (IF Head(files) = NoFile THEN <<>> ELSE WriteText(ReadText(Head(files))))
         \o MergeBytes(Tail(files))

\* the value merge returns
RECURSIVE MergeTotal(_)
MergeTotal(files) ==
    IF files = <<>> THEN 0
    ELSE (IF Head(files) = NoFile THEN 0 ELSE TagCount(ReadText(Head(files))))
         + MergeTotal(Tail(files))

------------------------------------------------------------------------------
(* The stage programs *)

Stages == 1..3
BatchedStages == {2, 3}

\* the batch_size run() hands to _run_batched_stage
BatchSizeOf(s) == IF s = 2 THEN STAGE2_BATCH_SIZE ELSE STAGE3_BATCH_SIZE

\* run_rfdiffusion: inference.num_designs backbones, one record each (a tag
\* line naming the design).
RECURSIVE Backbones(_)
Backbones(n) ==
    IF n = 0 THEN <<>>
    ELSE Backbones(n - 1) \o <<QV_TAG_PREFIX, ToString(n), LF>>

\* The line a stage program adds to each record of its input.
ScoreLine(s) == <<IF s = 2 THEN "mpnn" ELSE "rf2", LF>>

RECURSIVE ScoreEach(_, _)
ScoreEach(s, lines) ==
    IF lines = <<>> THEN <<>>
    ELSE Head(lines)
         \o (IF StartsWithTag(Head(lines))
             THEN (IF Head(lines)[Len(Head(lines))] = LF THEN <<>> ELSE <<LF>>)
                  \o ScoreLine(s)
             ELSE <<>>)
         \o ScoreEach(s, Tail(lines))

\* The stage programs are deterministic functions of their input file:
\* run_proteinmpnn (-inquiver, -outquiver) and run_rf2 (input.quiver,
\* output.quiver) write one record per record read.
StageProgram(s, input, n) ==
    IF s = 1 THEN Backbones(n)
    ELSE ScoreEach(s, Lines(ReadText(input)))

\* the program of stage s under this campaign's configuration
StageOutput(s, input) == StageProgram(s, input, num_designs)

\* A write that is cut short leaves a proper part of the text; the part cut
\* in the middle stands for all of them (no reader looks at the length).
PartOf(full) == SubSeq(full, 1, Len(full) \div 2)

\* What a stage program that exits non-zero, or is killed, leaves at its
\* output path: the file as it was, or a part of what it was writing.
InterruptedOutputs(old, full) == {old, PartOf(full)}

------------------------------------------------------------------------------
(* PipelineOrchestrator *)

BatchNumbers == 0..(MaxDesigns - 1)

\* faulty variant: a file counts only when its write was completed
ExistsWhenComplete(f) == f = "written"

\* Path.exists() of a checkpoint or marker file
Exists(f) == f # "none"

\* faulty variant: the checkpoint of stage 3 is never found
_checkpoint_exists_not3(s) == s # 3 /\ Exists(cp[s])

\* _checkpoint_exists(stage)
_checkpoint_exists(s) == Exists(cp[s])

\* the input collection of a stage: the output of the stage before it
\* (stage 1 reads no collection)
InputOf(s) == IF s = 1 THEN <<>> ELSE out[s - 1]

\* sorted(batch_dir.glob("batch_*.qv")): the numbers of the batch files that
\* exist, ascending (the names are zero-padded to four digits, so name order
\* is number order below 10000 batches).
RECURSIVE Ascending(_)
Ascending(S) ==
    IF S = {} THEN <<>>
    ELSE LET m == CHOOSE x \in S : \A y \in S : x <= y
         IN  <<m>> \o Ascending(S \ {m})

\* faulty variant: the batch files taken in descending order, as an unsorted
\* directory listing may give them
RECURSIVE Descending(_)
Descending(S) ==
    IF S = {} THEN <<>>
    ELSE LET m == CHOOSE x \in S : \A y \in S : x >= y
         IN  <<m>> \o Descending(S \ {m})

UnsortedBatchFiles(s) == Descending({b \in BatchNumbers : bIn[s][b] # NoFile})

SortedBatchFiles(s) == Ascending({b \in BatchNumbers : bIn[s][b] # NoFile})

n_batches == Len(batch_inputs)

\* where an exception raised by a stage program leaves run(): it propagates
AfterStageFailure == "failed"

\* faulty variant: the exception of a failed batch is swallowed and the loop goes on
\* to write the batch's checkpoint
AfterBatchFailureSwallowed == "bsave"

\* faulty variant: the failed batch is tried again
AfterBatchFailureRetried == "loop"

\* where an exception raised by stage_fn inside the batch loop leaves
\* _run_batched_stage: nothing catches it, it propagates out of run()
AfterBatchFailure == "failed"

\* faulty variant: the checkpoint is not written
_save_checkpoint_dropped(s) == cp

\* _save_checkpoint(stage): the checkpoint files after the write
_save_checkpoint(s) == [cp EXCEPT ![s] = "written"]

\* self.work_dir.glob(".checkpoint_*"): the stage checkpoints the pattern matches
GlobCheckpoints == Stages

\* faulty variant: a pattern that matches the batch directory of stage 2 alone
GlobBatchDirsStage2Only == {2}

\* self.work_dir.glob("stage*_batches"): the batch directories the pattern matches
GlobBatchDirs == BatchedStages

\* where run() continues once _run_batched_stage or run_rfdiffusion returned
AfterStageReturn == "save"

Stopped == {"idle", "returned", "failed", "crashed", "cleared"}
BatchedPcs == {"split", "mark", "loop", "brun", "bsave", "merge"}
RunPcs == {"check", "count", "direct", "save"} \cup BatchedPcs

NoBatchFiles == [b \in BatchNumbers |-> NoFile]
NoBatchCps == [b \in BatchNumbers |-> "none"]

\* an empty work directory, no invocation yet
FreshWorkDir ==
    /\ out = [s \in Stages |-> NoFile]
    /\ cp = [s \in Stages |-> "none"]
    /\ bdir = [s \in BatchedStages |-> FALSE]
    /\ marker = [s \in BatchedStages |-> "none"]
    /\ bIn = [s \in BatchedStages |-> NoBatchFiles]
    /\ bOut = [s \in BatchedStages |-> NoBatchFiles]
    /\ bCp = [s \in BatchedStages |-> NoBatchCps]
    /\ stage = 1
    /\ batch_inputs = <<>>
    /\ i = 0
    /\ batch_idx = 0
    /\ nmerged = 0
    /\ ran = {}
    /\ ops = {}
    /\ succeeded = {}
    /\ startCp = {}
    /\ startBCp = [s \in BatchedStages |-> {}]
    /\ crashedIn = 0
    /\ resumed = 0
    /\ coldStart = "no"

InitOrch ==
    /\ num_designs \in 0..MaxDesigns
    /\ pc = "idle"
    /\ FreshWorkDir

\* run(inputs) is called
StartRun ==
    /\ pc \in Stopped
    /\ pc' = "check"
    /\ stage' = 1
    /\ batch_inputs' = <<>>
    /\ i' = 0
    /\ batch_idx' = 0
    /\ nmerged' = 0
    /\ ran' = {}
    /\ ops' = {}
    /\ startCp' = {s \in Stages : _checkpoint_exists(s)}
    /\ startBCp' = [s \in BatchedStages |->
                      {b \in BatchNumbers : bdir[s] /\ Exists(bCp[s][b])}]
    /\ resumed' = IF pc = "crashed" THEN crashedIn ELSE 0
    /\ crashedIn' = 0
    /\ coldStart' = IF pc = "cleared" THEN coldStart ELSE "no"
    /\ UNCHANGED <<notOrch, num_designs, disk, succeeded>>

\* the pc after stage s is done with (skipped, or its checkpoint saved)
NextStage ==
    /\ pc' = IF stage = 3 THEN "returned" ELSE "check"
    /\ stage' = IF stage = 3 THEN stage ELSE stage + 1

\* "if not self._checkpoint_exists(stage)" is false: the stage is skipped
SkipStage ==
    /\ pc = "check"
    /\ _checkpoint_exists(stage)
    /\ NextStage
    /\ UNCHANGED <<notOrch, num_designs, disk, batch_inputs, i, batch_idx, nmerged, hist>>

\* stage 1 has no checkpoint: run_rfdiffusion is called
BeginStage1 ==
    /\ pc = "check"
    /\ stage = 1
    /\ ~_checkpoint_exists(stage)
    /\ pc' = "direct"
    /\ ran' = ran \cup {<<1, -1>>}
    /\ ops' = ops \cup {<<"enter", 1>>}
    /\ succeeded' = succeeded \ {1}
    /\ UNCHANGED <<notOrch, num_designs, disk, stage, batch_inputs, i, batch_idx, nmerged,
                   startCp, startBCp, crashedIn, resumed, coldStart>>

\* stage 2 or 3 has no checkpoint: _run_batched_stage is entered
BeginBatchedStage ==
    /\ pc = "check"
    /\ stage \in BatchedStages
    /\ ~_checkpoint_exists(stage)
    /\ pc' = "count"
    /\ ops' = ops \cup {<<"enter", stage>>}
    /\ UNCHANGED <<notOrch, num_designs, disk, stage, batch_inputs, i, batch_idx, nmerged,
                   ran, succeeded, startCp, startBCp, crashedIn, resumed, coldStart>>

\* n_entries <= batch_size: stage_fn(input_qv, output_qv) on the whole file
RunUnbatched ==
    /\ pc = "count"
    /\ count_entries(InputOf(stage)) <= BatchSizeOf(stage)
    /\ pc' = "direct"
    /\ ran' = ran \cup {<<stage, -1>>}
    /\ succeeded' = succeeded \ {stage}
    /\ UNCHANGED <<notOrch, num_designs, disk, stage, batch_inputs, i, batch_idx, nmerged,
                   ops, startCp, startBCp, crashedIn, resumed, coldStart>>

\* n_entries > batch_size and .split_complete exists: the batch files found
\* in the directory are taken
ReuseSplit ==
    /\ pc = "count"
    /\ count_entries(InputOf(stage)) > BatchSizeOf(stage)
    /\ bdir[stage] /\ Exists(marker[stage])
    /\ batch_inputs' = SortedBatchFiles(stage)
    /\ i' = 0
    /\ pc' = "loop"
    /\ UNCHANGED <<notOrch, num_designs, disk, stage, batch_idx, nmerged, hist>>

\* faulty variant: the marker is written when the split begins
BeginSplitMarkerFirst ==
    /\ pc = "count"
    /\ count_entries(InputOf(stage)) > BatchSizeOf(stage)
    /\ ~(bdir[stage] /\ Exists(marker[stage]))
    /\ bdir' = [bdir EXCEPT ![stage] = TRUE]
    /\ marker' = [marker EXCEPT ![stage] = "written"]
    /\ batch_idx' = 0
    /\ ops' = ops \cup {<<"split", stage>>}
    /\ pc' = "split"
    /\ UNCHANGED <<notOrch, num_designs, out, cp, bIn, bOut, bCp, stage, batch_inputs,
                   i, nmerged, ran, succeeded, startCp, startBCp, crashedIn, resumed,
                   coldStart>>

\* n_entries > batch_size and no .split_complete: quiver_utils.split is
\* entered and makes the batch directory
BeginSplit ==
    /\ pc = "count"
    /\ count_entries(InputOf(stage)) > BatchSizeOf(stage)
    /\ ~(bdir[stage] /\ Exists(marker[stage]))
    /\ bdir' = [bdir EXCEPT ![stage] = TRUE]
    /\ batch_idx' = 0
    /\ ops' = ops \cup {<<"split", stage>>}
    /\ pc' = "split"
    /\ UNCHANGED <<notOrch, num_designs, out, cp, marker, bIn, bOut, bCp, stage, batch_inputs,
                   i, nmerged, ran, succeeded, startCp, startBCp, crashedIn, resumed,
                   coldStart>>

\* the batches split writes for the stage's input
SplitOf(s) == split(InputOf(s), BatchSizeOf(s))

\* _flush(): batch_{batch_idx:04d}.qv is written
SplitFlush ==
    /\ pc = "split"
    /\ batch_idx < Len(SplitOf(stage))
    /\ bIn' = [bIn EXCEPT ![stage][batch_idx] = SplitOf(stage)[batch_idx + 1]]
    /\ batch_idx' = batch_idx + 1
    /\ UNCHANGED <<notOrch, num_designs, out, cp, bdir, marker, bOut, bCp, pc, stage,
                   batch_inputs, i, nmerged, hist>>

\* split returns the list of the files it wrote
SplitReturn ==
    /\ pc = "split"
    /\ batch_idx = Len(SplitOf(stage))
    /\ batch_inputs' = [k \in 1..batch_idx |-> k - 1]
    /\ pc' = "mark"
    /\ UNCHANGED <<notOrch, num_designs, disk, stage, i, batch_idx, nmerged, hist>>

\* split_marker.write_text(...)
WriteMarker ==
    /\ pc = "mark"
    /\ marker' = [marker EXCEPT ![stage] = "written"]
    /\ i' = 0
    /\ pc' = "loop"
    /\ UNCHANGED <<notOrch, num_designs, out, cp, bdir, bIn, bOut, bCp, stage, batch_inputs,
                   batch_idx, nmerged, hist>>

\* "if batch_cp.exists(): skipped += 1; continue"
SkipBatch ==
    /\ pc = "loop"
    /\ i < n_batches
    /\ Exists(bCp[stage][i])
    /\ i' = i + 1
    /\ UNCHANGED <<notOrch, num_designs, disk, pc, stage, batch_inputs, batch_idx, nmerged, hist>>

\* faulty variant: the batch is run whether or not its checkpoint exists
BeginBatchAnyway ==
    /\ pc = "loop"
    /\ i < n_batches
    /\ ran' = ran \cup {<<stage, i>>}
    /\ pc' = "brun"
    /\ UNCHANGED <<notOrch, num_designs, disk, stage, batch_inputs, i, batch_idx, nmerged,
                   ops, succeeded, startCp, startBCp, crashedIn, resumed, coldStart>>

\* stage_fn(batch_input, batch_output) is called
BeginBatch ==
    /\ pc = "loop"
    /\ i < n_batches
    /\ ~Exists(bCp[stage][i])
    /\ ran' = ran \cup {<<stage, i>>}
    /\ pc' = "brun"
    /\ UNCHANGED <<notOrch, num_designs, disk, stage, batch_inputs, i, batch_idx, nmerged,
                   ops, succeeded, startCp, startBCp, crashedIn, resumed, coldStart>>

\* the batch's program exits 0, having written output_{i:04d}.qv
BatchSucceeds ==
    /\ pc = "brun"
    /\ bIn[stage][batch_inputs[i + 1]] # NoFile
    /\ bOut' = [bOut EXCEPT ![stage][i] = StageOutput(stage, bIn[stage][batch_inputs[i + 1]])]
    /\ pc' = "bsave"
    /\ UNCHANGED <<notOrch, num_designs, out, cp, bdir, marker, bIn, bCp, stage, batch_inputs,
                   i, batch_idx, nmerged, hist>>

\* the batch's program exits non-zero: RuntimeError leaves run()
BatchFails ==
    /\ pc = "brun"
    /\ \E part \in InterruptedOutputs(bOut[stage][i],
                     IF bIn[stage][batch_inputs[i + 1]] = NoFile THEN <<>>
                     ELSE StageOutput(stage, bIn[stage][batch_inputs[i + 1]])) :
          bOut' = [bOut EXCEPT ![stage][i] = part]
    /\ pc' = AfterBatchFailure
    /\ UNCHANGED <<notOrch, num_designs, out, cp, bdir, marker, bIn, bCp, stage, batch_inputs,
                   i, batch_idx, nmerged, hist>>

\* batch_cp.write_text(...): the batch's checkpoint, then the next batch
SaveBatchCheckpoint ==
    /\ pc = "bsave"
    /\ bCp' = [bCp EXCEPT ![stage][i] = "written"]
    /\ i' = i + 1
    /\ pc' = "loop"
    /\ UNCHANGED <<notOrch, num_designs, out, cp, bdir, marker, bIn, bOut, stage, batch_inputs,
                   batch_idx, nmerged, hist>>

\* the loop is over: merge opens output_qv for writing
BeginMerge ==
    /\ pc = "loop"
    /\ i = n_batches
    /\ out' = [out EXCEPT ![stage] = <<>>]
    /\ nmerged' = 0
    /\ ops' = ops \cup {<<"merge", stage>>}
    /\ pc' = "merge"
    /\ UNCHANGED <<notOrch, num_designs, cp, bdir, marker, bIn, bOut, bCp, stage, batch_inputs,
                   i, batch_idx, ran, succeeded, startCp, startBCp, crashedIn, resumed,
                   coldStart>>

\* merge: the next file of batch_outputs is appended
MergeWrite ==
    /\ pc = "merge"
    /\ nmerged < n_batches
    /\ out' = [out EXCEPT ![stage] = @ \o MergeBytes(<<bOut[stage][nmerged]>>)]
    /\ nmerged' = nmerged + 1
    /\ UNCHANGED <<notOrch, num_designs, cp, bdir, marker, bIn, bOut, bCp, pc, stage,
                   batch_inputs, i, batch_idx, hist>>

\* merge and _run_batched_stage return
MergeReturn ==
    /\ pc = "merge"
    /\ nmerged = n_batches
    /\ pc' = AfterStageReturn
    /\ UNCHANGED <<notOrch, num_designs, disk, stage, batch_inputs, i, batch_idx, nmerged, hist>>

\* the un-batched program exits 0, having written the stage's output
DirectSucceeds ==
    /\ pc = "direct"
    /\ InputOf(stage) # NoFile
    /\ out' = [out EXCEPT ![stage] = StageOutput(stage, InputOf(stage))]
    /\ succeeded' = succeeded \cup {stage}
    /\ pc' = AfterStageReturn
    /\ UNCHANGED <<notOrch, num_designs, cp, bdir, marker, bIn, bOut, bCp, stage, batch_inputs,
                   i, batch_idx, nmerged, ran, ops, startCp, startBCp, crashedIn,
                   resumed, coldStart>>

\* the un-batched program exits non-zero: RuntimeError leaves run()
DirectFails ==
    /\ pc = "direct"
    /\ \E part \in InterruptedOutputs(out[stage],
                     StageOutput(stage, IF InputOf(stage) = NoFile
                                        THEN <<>> ELSE InputOf(stage))) :
          out' = [out EXCEPT ![stage] = part]
    /\ pc' = AfterStageFailure
    /\ UNCHANGED <<notOrch, num_designs, cp, bdir, marker, bIn, bOut, bCp, stage, batch_inputs,
                   i, batch_idx, nmerged, hist>>

\* _save_checkpoint(stage), then the next stage or the return of run()
SaveCheckpoint ==
    /\ pc = "save"
    /\ cp' = _save_checkpoint(stage)
    /\ NextStage
    /\ UNCHANGED <<notOrch, num_designs, out, bdir, marker, bIn, bOut, bCp, batch_inputs, i,
                   batch_idx, nmerged, hist>>

\* The locals of _run_batched_stage are gone once run() is left.
Forgotten ==
    /\ batch_inputs' = <<>>
    /\ i' = 0
    /\ batch_idx' = 0
    /\ nmerged' = 0

\* The process is killed: what every kill does to the invocation.
Killed ==
    /\ pc' = "crashed"
    /\ crashedIn' = IF pc \in BatchedPcs THEN stage ELSE 0
    /\ Forgotten
    /\ UNCHANGED <<notOrch, num_designs, stage, ran, ops, succeeded, startCp, startBCp,
                   resumed, coldStart>>

\* killed between two writes
KillBetweenWrites ==
    /\ pc \in {"check", "count", "loop", "split", "mark", "bsave", "save"}
    /\ Killed
    /\ UNCHANGED disk

\* killed while the un-batched stage program runs
KillDuringProgram ==
    /\ pc = "direct"
    /\ \E part \in InterruptedOutputs(out[stage],
                     StageOutput(stage, IF InputOf(stage) = NoFile
                                        THEN <<>> ELSE InputOf(stage))) :
          out' = [out EXCEPT ![stage] = part]
    /\ Killed
    /\ UNCHANGED <<cp, bdir, marker, bIn, bOut, bCp>>

\* killed while the program of batch i runs
KillDuringBatch ==
    /\ pc = "brun"
    /\ \E part \in InterruptedOutputs(bOut[stage][i],
                     IF bIn[stage][batch_inputs[i + 1]] = NoFile THEN <<>>
                     ELSE StageOutput(stage, bIn[stage][batch_inputs[i + 1]])) :
          bOut' = [bOut EXCEPT ![stage][i] = part]
    /\ Killed
    /\ UNCHANGED <<out, cp, bdir, marker, bIn, bCp>>

\* killed inside path.write_text of _flush(): part of the batch file is written
KillDuringFlush ==
    /\ pc = "split"
    /\ batch_idx < Len(SplitOf(stage))
    /\ bIn' = [bIn EXCEPT ![stage][batch_idx] = PartOf(SplitOf(stage)[batch_idx + 1])]
    /\ Killed
    /\ UNCHANGED <<out, cp, bdir, marker, bOut, bCp>>

\* killed inside split_marker.write_text: the file is created, its text is not
\* all written
KillDuringMarker ==
    /\ pc = "mark"
    /\ marker' = [marker EXCEPT ![stage] = "partial"]
    /\ Killed
    /\ UNCHANGED <<out, cp, bdir, bIn, bOut, bCp>>

\* killed inside batch_cp.write_text
KillDuringBatchCheckpoint ==
    /\ pc = "bsave"
    /\ bCp' = [bCp EXCEPT ![stage][i] = "partial"]
    /\ Killed
    /\ UNCHANGED <<out, cp, bdir, marker, bIn, bOut>>

\* killed inside the write_text of _save_checkpoint
KillDuringCheckpoint ==
    /\ pc = "save"
    /\ cp' = [cp EXCEPT ![stage] = "partial"]
    /\ Killed
    /\ UNCHANGED <<out, bdir, marker, bIn, bOut, bCp>>

\* killed inside merge: the output holds what had reached the disk
KillDuringMerge ==
    /\ pc = "merge"
    /\ \E part \in {out[stage], PartOf(out[stage])} :
          out' = [out EXCEPT ![stage] = part]
    /\ Killed
    /\ UNCHANGED <<cp, bdir, marker, bIn, bOut, bCp>>

\* clear_checkpoints() is called
ClearStart ==
    /\ pc \in Stopped
    /\ pc' = "clear"
    /\ crashedIn' = 0
    /\ UNCHANGED <<notOrch, num_designs, disk, stage, batch_inputs, i, batch_idx,
                   nmerged, ran, ops, succeeded, startCp, startBCp, resumed, coldStart>>

\* "for cp in self.work_dir.glob(".checkpoint_*"): cp.unlink()", in the order
\* the directory lists them
ClearUnlink ==
    /\ pc = "clear"
    /\ \E s \in GlobCheckpoints :
          /\ Exists(cp[s])
          /\ cp' = [cp EXCEPT ![s] = "none"]
    /\ UNCHANGED <<notOrch, num_designs, out, bdir, marker, bIn, bOut, bCp, locals, hist>>

\* faulty variant: the removal of a batch directory takes the stage's output
\* collection with it
ClearRmtreeWithOutput ==
    /\ pc = "clear"
    /\ \A s \in GlobCheckpoints : ~Exists(cp[s])
    /\ \E s \in GlobBatchDirs :
          /\ bdir[s]
          /\ bdir' = [bdir EXCEPT ![s] = FALSE]
          /\ marker' = [marker EXCEPT ![s] = "none"]
          /\ bIn' = [bIn EXCEPT ![s] = NoBatchFiles]
          /\ bOut' = [bOut EXCEPT ![s] = NoBatchFiles]
          /\ bCp' = [bCp EXCEPT ![s] = NoBatchCps]
          /\ out' = [out EXCEPT ![s] = NoFile]
    /\ UNCHANGED <<notOrch, num_designs, cp, locals, hist>>

\* "for batch_dir in self.work_dir.glob("stage*_batches"): shutil.rmtree(batch_dir)"
ClearRmtree ==
    /\ pc = "clear"
    /\ \A s \in GlobCheckpoints : ~Exists(cp[s])
    /\ \E s \in GlobBatchDirs :
          /\ bdir[s]
          /\ bdir' = [bdir EXCEPT ![s] = FALSE]
          /\ marker' = [marker EXCEPT ![s] = "none"]
          /\ bIn' = [bIn EXCEPT ![s] = NoBatchFiles]
          /\ bOut' = [bOut EXCEPT ![s] = NoBatchFiles]
          /\ bCp' = [bCp EXCEPT ![s] = NoBatchCps]
    /\ UNCHANGED <<notOrch, num_designs, out, cp, locals, hist>>

\* clear_checkpoints() returns
ClearReturn ==
    /\ pc = "clear"
    /\ \A s \in GlobCheckpoints : ~Exists(cp[s])
    /\ \A s \in GlobBatchDirs : ~bdir[s]
    /\ pc' = "cleared"
    /\ coldStart' = IF \A s \in Stages : out[s] # NoFile THEN "full" ELSE "fresh"
    /\ UNCHANGED <<notOrch, num_designs, disk, stage, batch_inputs, i, batch_idx,
                   nmerged, ran, ops, succeeded, startCp, startBCp, crashedIn, resumed>>

\* killed inside clear_checkpoints between two removals: the checkpoints
\* and directories not reached yet stay
KillDuringClear ==
    /\ pc = "clear"
    /\ Killed
    /\ UNCHANGED disk

\* the kinds of files of a batch directory
BatchDirKinds == {"marker", "batch", "output", "checkpoint"}

\* killed inside shutil.rmtree(batch_dir): the files rmtree had reached, in
\* the order the directory lists them, are gone and the others stay (here
\* all the files of the kinds in gone)
KillDuringRmtree ==
    /\ pc = "clear"
    /\ \A s \in GlobCheckpoints : ~Exists(cp[s])
    /\ \E s \in GlobBatchDirs, gone \in (SUBSET BatchDirKinds) \ {{}} :
          /\ bdir[s]
          /\ marker' = [marker EXCEPT ![s] = IF "marker" \in gone THEN "none" ELSE @]
          /\ bIn' = [bIn EXCEPT ![s] = IF "batch" \in gone THEN NoBatchFiles ELSE @]
          /\ bOut' = [bOut EXCEPT ![s] = IF "output" \in gone THEN NoBatchFiles ELSE @]
          /\ bCp' = [bCp EXCEPT ![s] = IF "checkpoint" \in gone THEN NoBatchCps ELSE @]
    /\ Killed
    /\ UNCHANGED <<out, cp, bdir>>

------------------------------------------------------------------------------
(* run_stage_parallel *)

\* A file of work_dir that matches chunk*.qv: <<k, d>> is the k-th chunk that
\* qvsplit writes with "_out" appended d times to its stem.
ChunkPaths == (0..(MaxGpus - 1)) \X (0..2)

\* chunk.with_name(f"{chunk.stem}_out.qv")
OutPathOf(path) == <<path[1], path[2] + 1>>

\* name order of two such files: "." sorts before "_"
NameBefore(a, b) == a[1] < b[1] \/ (a[1] = b[1] /\ a[2] < b[2])

RECURSIVE SortedPaths(_)
SortedPaths(S) ==
    IF S = {} THEN <<>>
    ELSE LET m == CHOOSE x \in S : \A y \in S \ {x} : NameBefore(x, y)
         IN  <<m>> \o SortedPaths(S \ {m})

\* qvsplit, the upstream tool: num_chunks files of roughly equal record
\* counts, contiguous and in the order of the input.
QvSplit(bytes, num_chunks) ==
    LET recs == split(bytes, 1)
        q    == Len(recs) \div num_chunks
        r    == Len(recs) % num_chunks
        lo(k) == k * q + (IF k < r THEN k ELSE r)
        hi(k) == lo(k) + q + (IF k < r THEN 1 ELSE 0)
    IN  [k \in 0..(num_chunks - 1) |-> Concat(SubSeq(recs, lo(k) + 1, hi(k)))]

\* sorted(work_dir.glob("chunk*.qv")) once qvsplit has written its files
GlobChunks(files) == SortedPaths({path \in ChunkPaths : files[path] # NoFile})

\* _merge_quivers(qv_files, output_path): the bytes written
_merge_quivers(files) == MergeBytes(files)

\* the exception stage_fn raises in worker gid
WorkerError(gid) == <<"stage failed on GPU", gid>>

\* faulty variant: the message names the first failed worker only
FirstGpuIdOnly(fs) == <<fs[1][1]>>

\* gpu_ids = [str(gid) for gid, _ in failures]
GpuIds(fs) == [k \in 1..Len(fs) |-> fs[k][1]]

\* faulty variant: the files are merged in the order the workers finished
OutputsAsFinished == [k \in 1..Len(finishOrder) |-> outputs[finishOrder[k] + 1]]

\* the list handed to _merge_quivers
MergeList == outputs

\* faulty variant: the join loop is left as soon as a failure is recorded
JoinedAllOrFailed == joined = Len(threads) \/ failures # <<>>

\* "for t in threads: t.join()" is through
JoinedAll == joined = Len(threads)

NoWorkers ==
    /\ chunks = <<>>
    /\ outputs = <<>>
    /\ threads = <<>>
    /\ devices = <<>>
    /\ failures = <<>>
    /\ joined = 0
    /\ perror = <<>>
    /\ produced = <<>>
    /\ finishOrder = <<>>
    /\ mergedNow = FALSE

InitPar ==
    /\ num_gpus \in 1..MaxGpus
    /\ pInput \in {Backbones(n) : n \in 0..MaxDesigns}
    /\ pfiles = [path \in ChunkPaths |-> NoFile]
    /\ pmerged = NoFile
    /\ ppc = "idle"
    /\ NoWorkers
    /\ redispatched = FALSE

\* run_stage_parallel is called with num_gpus <= 1: stage_fn runs on the input
DispatchSingle ==
    /\ ppc = "idle"
    /\ num_gpus <= 1
    /\ ppc' = "single"
    /\ UNCHANGED <<notPar, num_gpus, pInput, pdisk, chunks, outputs, threads, devices,
                   failures, joined, perror, phist>>

\* the single stage_fn returns, or raises
SingleReturns ==
    /\ ppc = "single"
    /\ ppc' \in {"returned", "raised"}
    /\ UNCHANGED <<notPar, num_gpus, pInput, pdisk, chunks, outputs, threads, devices,
                   failures, joined, perror, phist>>

\* run_stage_parallel is called with num_gpus > 1: _split_quiver is entered
DispatchParallel ==
    /\ ppc = "idle"
    /\ num_gpus > 1
    /\ ppc' = "split"
    /\ UNCHANGED <<notPar, num_gpus, pInput, pdisk, chunks, outputs, threads, devices,
                   failures, joined, perror, phist>>

\* qvsplit exits 0 having written its chunks; the directory is listed
SplitQuiver ==
    /\ ppc = "split"
    /\ LET written == [path \in ChunkPaths |->
                          IF path[2] = 0 /\ path[1] < num_gpus
                          THEN QvSplit(pInput, num_gpus)[path[1]]
                          ELSE pfiles[path]]
       IN  /\ pfiles' = written
           /\ chunks' = GlobChunks(written)
    /\ ppc' = "start"
    /\ UNCHANGED <<notPar, num_gpus, pInput, pmerged, outputs, threads, devices,
                   failures, joined, perror, phist>>

\* qvsplit is missing or exits non-zero: _split_quiver raises
SplitQuiverFails ==
    /\ ppc = "split"
    /\ ppc' = "raised"
    /\ UNCHANGED <<notPar, num_gpus, pInput, pdisk, chunks, outputs, threads, devices,
                   failures, joined, perror, phist>>

\* one turn of "for gpu_id, chunk in enumerate(chunks)": t.start()
StartWorker ==
    /\ ppc = "start"
    /\ Len(threads) < Len(chunks)
    /\ outputs' = Append(outputs, OutPathOf(chunks[Len(threads) + 1]))
    /\ devices' = Append(devices, Len(threads))
    /\ threads' = Append(threads, "running")
    /\ produced' = Append(produced, NoFile)
    /\ UNCHANGED <<notPar, num_gpus, pInput, pdisk, ppc, chunks, failures, joined,
                   perror, finishOrder, mergedNow, redispatched>>

\* the start loop is over
AllStarted ==
    /\ ppc = "start"
    /\ Len(threads) = Len(chunks)
    /\ joined' = 0
    /\ ppc' = "join"
    /\ UNCHANGED <<notPar, num_gpus, pInput, pdisk, chunks, outputs, threads, devices,
                   failures, perror, phist>>

\* worker gid: fn(inp, outp, e) returns, its output written
WorkerSucceeds ==
    \E g \in 0..(MaxGpus * 2 - 1) :
        /\ g < Len(threads)
        /\ threads[g + 1] = "running"
        /\ pfiles[chunks[g + 1]] # NoFile
        /\ LET written == ScoreEach(2, Lines(ReadText(pfiles[chunks[g + 1]])))
           IN  /\ pfiles' = [pfiles EXCEPT ![outputs[g + 1]] = written]
               /\ produced' = [produced EXCEPT ![g + 1] = written]
        /\ threads' = [threads EXCEPT ![g + 1] = "ok"]
        /\ finishOrder' = Append(finishOrder, g)
        /\ UNCHANGED <<notPar, num_gpus, pInput, pmerged, ppc, chunks, outputs, devices,
                       failures, joined, perror, mergedNow, redispatched>>

\* worker gid: fn raises; the exception is appended to failures under the lock
WorkerFails ==
    \E g \in 0..(MaxGpus * 2 - 1) :
        /\ g < Len(threads)
        /\ threads[g + 1] = "running"
        /\ \E part \in InterruptedOutputs(pfiles[outputs[g + 1]],
                         IF pfiles[chunks[g + 1]] = NoFile THEN <<>>
                         ELSE ScoreEach(2, Lines(ReadText(pfiles[chunks[g + 1]])))) :
              pfiles' = [pfiles EXCEPT ![outputs[g + 1]] = part]
        /\ failures' = Append(failures, <<g, WorkerError(g)>>)
        /\ threads' = [threads EXCEPT ![g + 1] = "failed"]
        /\ finishOrder' = Append(finishOrder, g)
        /\ UNCHANGED <<notPar, num_gpus, pInput, pmerged, ppc, chunks, outputs, devices,
                       joined, perror, produced, mergedNow, redispatched>>

\* t.join() of the next thread returns: that worker has finished
JoinWorker ==
    /\ ppc = "join"
    /\ ~JoinedAll
    /\ joined < Len(threads)
    /\ threads[joined + 1] # "running"
    /\ joined' = joined + 1
    /\ UNCHANGED <<notPar, num_gpus, pInput, pdisk, ppc, chunks, outputs, threads,
                   devices, failures, perror, phist>>

\* "if failures: raise RuntimeError(...)"
RaiseFailures ==
    /\ ppc = "join"
    /\ JoinedAll
    /\ failures # <<>>
    /\ perror' = <<GpuIds(failures), failures[1][2]>>
    /\ ppc' = "raised"
    /\ UNCHANGED <<notPar, num_gpus, pInput, pdisk, chunks, outputs, threads, devices,
                   failures, joined, phist>>

\* no failure: _merge_quivers(outputs, merged) and return
MergeOutputs ==
    /\ ppc = "join"
    /\ JoinedAll
    /\ failures = <<>>
    /\ pmerged' = _merge_quivers([k \in 1..Len(MergeList) |-> pfiles[MergeList[k]]])
    /\ mergedNow' = TRUE
    /\ ppc' = "returned"
    /\ UNCHANGED <<notPar, num_gpus, pInput, pfiles, chunks, outputs, threads, devices,
                   failures, joined, perror, produced, finishOrder, redispatched>>

\* the caller calls run_stage_parallel again in the same work_dir
Redispatch ==
    /\ ppc \in {"returned", "raised"}
    /\ ~redispatched
    /\ \A k \in 1..Len(threads) : threads[k] # "running"
    /\ redispatched' = TRUE
    /\ ppc' = "idle"
    /\ chunks' = <<>>
    /\ outputs' = <<>>
    /\ threads' = <<>>
    /\ devices' = <<>>
    /\ failures' = <<>>
    /\ joined' = 0
    /\ perror' = <<>>
    /\ produced' = <<>>
    /\ finishOrder' = <<>>
    /\ mergedNow' = FALSE
    /\ UNCHANGED <<notPar, num_gpus, pInput, pdisk>>

------------------------------------------------------------------------------
(* quiver_utils: split one file, then merge the batches split returned *)

InitCodec ==
    /\ qpc = "start"
    /\ qInput \in SeqsUpTo(Alphabet, MaxLen)
    /\ qBatchSize \in 1..MaxBatchSize
    /\ qBatches = <<>>
    /\ qMerged = NoFile
    /\ qTotal = 0

\* batches = split(qv_path, batch_size, batch_dir)
CodecSplit ==
    /\ qpc = "start"
    /\ qBatches' = split(qInput, qBatchSize)
    /\ qpc' = "split"
    /\ UNCHANGED <<notCodec, qInput, qBatchSize, qMerged, qTotal>>

\* a caller hands merge a list of files of its own: files written in full or
\* in part, with or without a final line terminator, or absent
InitMerge ==
    /\ qpc = "files"
    /\ qInput = <<>>
    /\ qBatchSize = 1
    /\ qBatches \in SeqsUpTo(SeqsUpTo(Alphabet, MaxFileLen) \cup {NoFile}, MaxFiles)
    /\ qMerged = NoFile
    /\ qTotal = 0

\* total = merge(batches, output_path)
CodecMerge ==
    /\ qpc \in {"split", "files"}
    /\ qMerged' = MergeBytes(qBatches)
    /\ qTotal' = MergeTotal(qBatches)
    /\ qpc' = "merged"
    /\ UNCHANGED <<notCodec, qInput, qBatchSize, qBatches>>

------------------------------------------------------------------------------
(* run_cancer_drivers: run_parallel *)

\* the campaigns of the list configs, by their index
Submitted == 0..(Len(futures) - 1)

\* the campaigns a worker process of the pool is running
Running == {c \in Submitted : futures[c + 1] = "running"}

\* run_parallel(configs, max_workers, ...) is called by main, which does so
\* when args.parallel > 1
InitLocal ==
    /\ lpc = "submit"
    /\ n_configs \in 1..MaxConfigs
    /\ max_workers \in 2..MaxWorkers
    /\ cuda = <<>>
    /\ futures = <<>>
    /\ results = <<>>

\* one turn of "for i, config_path in enumerate(configs)": gpu_id = i %
\* max_workers, env with CUDA_VISIBLE_DEVICES = str(gpu_id), pool.submit
LocalSubmit ==
    /\ lpc = "submit"
    /\ Len(futures) < n_configs
    /\ cuda' = Append(cuda, Len(futures) % max_workers)
    /\ futures' = Append(futures, "pending")
    /\ UNCHANGED <<notLocal, lpc, n_configs, max_workers, results>>

\* the loop over configs ends: "for future in as_completed(futures)" begins
LocalSubmitted ==
    /\ lpc = "submit"
    /\ Len(futures) = n_configs
    /\ lpc' = "wait"
    /\ UNCHANGED <<notLocal, n_configs, max_workers, cuda, futures, results>>

\* ProcessPoolExecutor(max_workers): a worker process that is free takes the
\* work item submitted first among those pending and calls
\* run_single_campaign with the env of the item
WorkerTakes ==
    /\ lpc \in {"submit", "wait"}
    /\ Cardinality(Running) < max_workers
    /\ \E c \in Submitted :
          /\ futures[c + 1] = "pending"
          /\ \A d \in Submitted : d < c => futures[d + 1] # "pending"
          /\ futures' = [futures EXCEPT ![c + 1] = "running"]
    /\ UNCHANGED <<notLocal, lpc, n_configs, max_workers, cuda, results>>

\* subprocess.run of campaign c returns, or raises: its future is finished
CampaignExits(c) ==
    /\ c \in Running
    /\ futures' = [futures EXCEPT ![c + 1] = "finished"]
    /\ UNCHANGED <<notLocal, lpc, n_configs, max_workers, cuda, results>>

\* as_completed yields the future of campaign c: results.append(...)
AsCompleted(c) ==
    /\ lpc = "wait"
    /\ c \in Submitted
    /\ futures[c + 1] = "finished"
    /\ futures' = [futures EXCEPT ![c + 1] = "done"]
    /\ results' = Append(results, c)
    /\ UNCHANGED <<notLocal, lpc, n_configs, max_workers, cuda>>

\* every future has been yielded: the pool is shut down, results is returned
RunParallelReturns ==
    /\ lpc = "wait"
    /\ \A c \in Submitted : futures[c + 1] = "done"
    /\ lpc' = "returned"
    /\ UNCHANGED <<notLocal, n_configs, max_workers, cuda, futures, results>>

------------------------------------------------------------------------------
(* run_pipeline_command *)

\* a byte that is not text in the encoding of the pipe
BadByte == "\\xff"

\* the lines an external program may write
OutputLines == {<<"a", LF>>, <<"b", LF>>, <<BadByte, LF>>}

\* whether the text layer of proc.stdout (text=True) decodes the bytes
Decodable(bytes) == \A k \in DOMAIN bytes : bytes[k] # BadByte

\* line.rstrip("\n")
RECURSIVE RStripLF(_)
RStripLF(line) ==
    IF line # <<>> /\ line[Len(line)] = LF
    THEN RStripLF(SubSeq(line, 1, Len(line) - 1))
    ELSE line

\* "\n".join(stdout_lines)
RECURSIVE JoinLines(_)
JoinLines(lines) ==
    IF lines = <<>> THEN <<>>
    ELSE IF Len(lines) = 1 THEN lines[1]
    ELSE lines[1] \o <<LF>> \o JoinLines(Tail(lines))

\* text[-n:]
LastChars(text, n) ==
    IF Len(text) <= n THEN text ELSE SubSeq(text, Len(text) - n + 1, Len(text))

\* the argument label
Label == "RFdiffusion"

\* the names and values of environment variables
EnvNames == {"HYDRA_FULL_ERROR", "CUDA_VISIBLE_DEVICES"}
EnvValues == {"0", "1"}
Unset == "<unset>"
Environments == [EnvNames -> EnvValues \cup {Unset}]
EmptyEnv == [n \in EnvNames |-> Unset]

\* {**base, **over}
DictMerge(base, over) == [n \in EnvNames |-> IF over[n] # Unset THEN over[n] ELSE base[n]]

\* {"HYDRA_FULL_ERROR": "1"}
HydraFullError == [n \in EnvNames |-> IF n = "HYDRA_FULL_ERROR" THEN "1" ELSE Unset]

\* faulty variant: the ambient environment merged on top of the overrides
RunEnvAmbientOnTop(ambient, overrides) ==
    DictMerge(DictMerge(overrides, HydraFullError), ambient)

\* run_env = {**os.environ, "HYDRA_FULL_ERROR": "1", **(env or {})}
RunEnv(ambient, overrides) == DictMerge(DictMerge(ambient, HydraFullError), overrides)

\* what every call starts from, its arguments apart
CmdStart ==
    /\ cpc = "idle"
    /\ proc = "none"
    /\ pipe = <<>>
    /\ stdout_lines = <<>>
    /\ elapsed = 0
    /\ waited = 0
    /\ completed = <<>>
    /\ exc = <<>>
    /\ run_env = EmptyEnv

InitCmd ==
    /\ hasTimeout \in BOOLEAN
    /\ timeout \in 1..MaxTimeout
    /\ program \in {"exits", "hangs_open", "hangs_closed"}
    /\ exitStatus \in {0, 1}
    /\ toWrite \in SeqsUpTo(OutputLines, MaxLines)
    /\ environ = EmptyEnv
    /\ env = EmptyEnv
    /\ CmdStart

\* a call in any ambient environment with any overrides
InitCmdEnv ==
    /\ hasTimeout \in BOOLEAN
    /\ timeout = 1
    /\ program \in {"exits", "hangs_open", "hangs_closed"}
    /\ exitStatus \in {0, 1}
    /\ toWrite \in SeqsUpTo(OutputLines, 1)
    /\ environ \in Environments
    /\ env \in Environments
    /\ CmdStart

\* subprocess.Popen(cmd, stdout=PIPE, stderr=STDOUT, text=True, env=run_env)
Popen ==
    /\ cpc = "idle"
    /\ run_env' = RunEnv(environ, env)
    /\ proc' = "running"
    /\ cpc' = "reading"
    /\ UNCHANGED <<notCmd, cin, toWrite, pipe, stdout_lines, elapsed, waited, cend>>

\* the program writes a line to its output
ProgramWrites ==
    /\ proc = "running"
    /\ toWrite # <<>>
    /\ pipe' = Append(pipe, Head(toWrite))
    /\ toWrite' = Tail(toWrite)
    /\ UNCHANGED <<notCmd, cpc, cin, proc, stdout_lines, elapsed, waited, cend, run_env>>

\* the program closes its output and goes on running
ProgramClosesStdout ==
    /\ proc = "running"
    /\ program = "hangs_closed"
    /\ toWrite = <<>>
    /\ proc' = "closed"
    /\ UNCHANGED <<notCmd, cpc, cin, toWrite, pipe, stdout_lines, elapsed, waited, cend,
                   run_env>>

\* the program exits, which closes its output
ProgramExits ==
    /\ proc = "running"
    /\ program = "exits"
    /\ toWrite = <<>>
    /\ proc' = "exited"
    /\ UNCHANGED <<notCmd, cpc, cin, toWrite, pipe, stdout_lines, elapsed, waited, cend,
                   run_env>>

\* one turn of "for line in proc.stdout": a line is there
ReadLine ==
    /\ cpc = "reading"
    /\ pipe # <<>>
    /\ Decodable(Head(pipe))
    /\ stdout_lines' = Append(stdout_lines, RStripLF(Head(pipe)))
    /\ pipe' = Tail(pipe)
    /\ UNCHANGED <<notCmd, cpc, cin, proc, toWrite, elapsed, waited, cend, run_env>>

\* "for line in proc.stdout" meets bytes that do not decode: the
\* UnicodeDecodeError is no TimeoutExpired, nothing catches it, and the
\* child is neither killed nor waited for
ReadUndecodable ==
    /\ cpc = "reading"
    /\ pipe # <<>>
    /\ ~Decodable(Head(pipe))
    /\ pipe' = Tail(pipe)
    /\ exc' = <<"UnicodeDecodeError">>
    /\ cpc' = "raised_decode"
    /\ UNCHANGED <<notCmd, cin, proc, toWrite, stdout_lines, elapsed, waited, completed,
                   run_env>>

\* whether iterating proc.stdout ends: every line is read and the write end
\* of the pipe is closed
AtEof == pipe = <<>> /\ proc \in {"closed", "exited", "killed"}

\* "for line in proc.stdout" ends and proc.wait(timeout=timeout) is entered
ReadEof ==
    /\ cpc = "reading"
    /\ AtEof
    /\ cpc' = "waiting"
    /\ waited' = 0
    /\ UNCHANGED <<notCmd, cin, proc, toWrite, pipe, stdout_lines, elapsed, cend, run_env>>

\* a unit of time passes; both clocks stand still at their bounds
Tick ==
    /\ cpc \in {"reading", "waiting"}
    /\ elapsed' = IF elapsed < MaxClock THEN elapsed + 1 ELSE elapsed
    /\ waited' = IF cpc = "waiting" /\ waited < MaxTimeout THEN waited + 1 ELSE waited
    /\ UNCHANGED <<notCmd, cpc, cin, proc, toWrite, pipe, stdout_lines, cend, run_env>>

\* stdout_text = "\n".join(stdout_lines)
stdout_text == JoinLines(stdout_lines)

\* stdout_text[-5000:]
ErrorTail(text) == LastChars(text, TAIL_CHARS)

\* "if proc.returncode != 0"
ReturnCodeNonZero == exitStatus # 0

\* proc.wait returns: the status decides between the return and RuntimeError
WaitReturns ==
    /\ cpc = "waiting"
    /\ proc = "exited"
    /\ IF ReturnCodeNonZero
       THEN /\ exc' = <<"RuntimeError", Label, exitStatus, ErrorTail(stdout_text)>>
            /\ cpc' = "raised_error"
            /\ UNCHANGED completed
       ELSE /\ completed' = <<exitStatus, stdout_text>>
            /\ cpc' = "returned"
            /\ UNCHANGED exc
    /\ UNCHANGED <<notCmd, cin, proc, toWrite, pipe, stdout_lines, elapsed, waited, run_env>>

\* proc.wait(timeout) raises TimeoutExpired
WaitTimesOut ==
    /\ cpc = "waiting"
    /\ hasTimeout
    /\ waited >= timeout
    /\ proc # "exited"
    /\ cpc' = "expired"
    /\ UNCHANGED <<notCmd, cin, proc, toWrite, pipe, stdout_lines, elapsed, waited, cend,
                   run_env>>

\* "except subprocess.TimeoutExpired: proc.kill(); proc.wait(); raise"
KillAndRaise ==
    /\ cpc = "expired"
    /\ proc' = "killed"
    /\ exc' = <<"TimeoutExpired">>
    /\ cpc' = "raised_timeout"
    /\ UNCHANGED <<notCmd, cin, toWrite, pipe, stdout_lines, elapsed, waited, completed,
                   run_env>>

------------------------------------------------------------------------------
(* cli: rfab analyze *)

\* _cmd_analyze, called while no run() is in progress: it looks for
\* 03_predictions.qv and hands the file to _run_analysis
CmdAnalyze ==
    /\ pc \in Stopped
    /\ analysis = <<>>
    /\ analysis' = IF out[3] = NoFile THEN <<"refused">>
                   ELSE <<"ran", out[3], cp[3]>>
    /\ UNCHANGED notAnalyze

------------------------------------------------------------------------------
(* cli: main, rfab validate, load_config *)

\* the fewest hotspot residues validate() accepts
MIN_HOTSPOTS == 3

\* antibody.format and the names of antibody.cdr_loops
Formats == {"vhh", "scfv", "fab"}
LoopNames == {"H1", "L1"}

\* The file args.config names.  doc is what it holds: nothing ("empty",
\* safe_load returns None), a YAML sequence ("list"), text that is no YAML
\* ("malformed"), a YAML mapping, or there is no such file ("missing").  For
\* a mapping the fields say what its sections hold; every section and key
\* not listed has its default.
Documents == {"missing", "malformed", "empty", "list", "mapping"}
NoFields ==
    [hasName |-> FALSE, has_id |-> FALSE, has_file |-> FALSE, file_exists |-> FALSE,
     hotspots |-> 0, format |-> "vhh", cdr_loops |-> {}]
MappingFields ==
    [hasName : BOOLEAN, has_id : BOOLEAN, has_file : BOOLEAN, file_exists : BOOLEAN,
     hotspots : (MIN_HOTSPOTS - 1)..MIN_HOTSPOTS, format : Formats,
     cdr_loops : SUBSET LoopNames]
ConfigFiles ==
    {[doc |-> d, f |-> NoFields] : d \in Documents \ {"mapping"}}
    \cup {[doc |-> "mapping", f |-> g] : g \in {h \in MappingFields : h.has_file \/ ~h.file_exists}}

\* CampaignConfig.validate(): the errors it returns
ValidateErrors(f) ==
    (IF f.has_id = f.has_file THEN {"exactly one of pdb_id, pdb_file"} ELSE {})
    \cup (IF f.has_file /\ ~f.file_exists THEN {"pdb_file not found"} ELSE {})
    \cup (IF f.hotspots < MIN_HOTSPOTS THEN {"hotspot_residues"} ELSE {})
    \cup (IF f.format \notin {"vhh", "scfv"} THEN {"format"} ELSE {})
    \cup (IF f.format = "vhh" /\ "L1" \in f.cdr_loops THEN {"light chain loop"} ELSE {})
    \cup (IF f.format = "scfv" /\ f.cdr_loops # LoopNames THEN {"H and L loops"} ELSE {})

\* load_config(path): <<"config">> or the exception that leaves it
load_config(y) ==
    IF y.doc = "missing" THEN <<"raised", "FileNotFoundError">>
    ELSE IF y.doc = "malformed" THEN <<"raised", "YAMLError">>
    ELSE IF y.doc \in {"empty", "list"} THEN <<"raised", "AttributeError">>
    ELSE IF ~y.f.hasName THEN <<"raised", "TypeError">>
    ELSE IF ValidateErrors(y.f) # {} THEN <<"raised", "ValueError">>
    ELSE <<"config">>

InitMain ==
    /\ mpc = "idle"
    /\ command \in {"none", "validate"}
    /\ yaml \in ConfigFiles
    /\ ret = <<>>

\* main(argv) without a command: print_help(), return 1
MainNoCommand ==
    /\ mpc = "idle"
    /\ command = "none"
    /\ mpc' = "done"
    /\ ret' = <<"returned", 1>>
    /\ UNCHANGED <<notMain, command, yaml>>

\* main(argv) with a command: handlers[args.command](args)
MainDispatch ==
    /\ mpc = "idle"
    /\ command # "none"
    /\ mpc' = "handler"
    /\ UNCHANGED <<notMain, command, yaml, ret>>

\* _cmd_validate: 1 when load_config raises ValueError, 0 when it returns;
\* any other exception leaves _cmd_validate and main
CmdValidate ==
    /\ mpc = "handler"
    /\ command = "validate"
    /\ LET loaded == load_config(yaml)
       IN  ret' = IF loaded = <<"config">> THEN <<"returned", 0>>
                  ELSE IF loaded[2] = "ValueError" THEN <<"returned", 1>>
                  ELSE loaded
    /\ mpc' = "done"
    /\ UNCHANGED <<notMain, command, yaml>>

------------------------------------------------------------------------------
(* target_prep/fetch_pdb: _download *)

PdbIds == {"1ABC", "7U8C"}
FileFormats == {"pdb", "cif"}
FetchPaths == PdbIds \X FileFormats

\* what the server sends for a structure, in the blocks urlretrieve reads
Structure == [k \in 1..MaxBlocks |-> "block"]

\* HTTPError, raised by urlopen before urlretrieve opens the file
HttpErrors == {<<"HTTPError", "404">>, <<"HTTPError", "500">>}
\* an Exception that is no HTTPError, before or after the file is opened
OtherErrors == {<<"URLError">>, <<"ConnectionError">>, <<"ContentTooShortError">>}

NothingFetched == [path \in FetchPaths |-> NoFile]

\* faulty variant: the file stays
KeepFile(files, path) == files

\* if path.exists(): path.unlink()
UnlinkIfExists(files, path) == [files EXCEPT ![path] = NoFile]

InitFetch ==
    /\ fpc = "idle"
    /\ pdb_id \in PdbIds
    /\ fmt = "pdb"
    /\ fetched = NothingFetched
    /\ fret = <<>>
    /\ cutShort = {}

\* the next call of fetch_pdb on the same output_dir
FetchAgain ==
    /\ fpc \in {"returned", "raised"}
    /\ fpc' = "idle"
    /\ pdb_id' \in PdbIds
    /\ fmt' = "pdb"
    /\ fret' = <<>>
    /\ UNCHANGED <<notFetch, fetched, cutShort>>

\* pdb_path or cif_path exists: "already downloaded"
AlreadyDownloaded ==
    /\ fpc = "idle"
    /\ \E f \in FileFormats :
          /\ fetched[<<pdb_id, f>>] # NoFile
          /\ f = "cif" => fetched[<<pdb_id, "pdb">>] = NoFile
          /\ fret' = <<"returned", f>>
    /\ fpc' = "returned"
    /\ UNCHANGED <<notFetch, pdb_id, fmt, fetched, cutShort>>

\* neither exists: urlretrieve(pdb_url, pdb_path) is called
BeginDownload ==
    /\ fpc = "idle"
    /\ \A f \in FileFormats : fetched[<<pdb_id, f>>] = NoFile
    /\ fpc' = "open"
    /\ UNCHANGED <<notFetch, pdb_id, fmt, fetched, fret, cutShort>>

\* urlretrieve: urlopen answers, open(filename, "wb") creates the file
UrlOpens ==
    /\ fpc = "open"
    /\ fetched' = [fetched EXCEPT ![<<pdb_id, fmt>>] = <<>>]
    /\ fpc' = "read"
    /\ UNCHANGED <<notFetch, pdb_id, fmt, fret, cutShort>>

\* urlretrieve: urlopen raises HTTPError 404 for the .pdb: the except
\* clause logs and _download goes on with the .cif
PdbNotFound ==
    /\ fpc = "open"
    /\ fmt = "pdb"
    /\ fmt' = "cif"
    /\ UNCHANGED <<notFetch, fpc, pdb_id, fetched, fret, cutShort>>

\* urlretrieve: urlopen raises any other error, or any error for the .cif:
\* "raise" for the HTTPError of the .pdb, unlink and raise otherwise
UrlOpenFails ==
    /\ fpc = "open"
    /\ \E e \in HttpErrors \cup OtherErrors :
          /\ ~(fmt = "pdb" /\ e = <<"HTTPError", "404">>)
          /\ fret' = <<"raised", e>>
          /\ fetched' = IF fmt = "pdb" /\ e \in HttpErrors THEN fetched
                        ELSE UnlinkIfExists(fetched, <<pdb_id, fmt>>)
    /\ fpc' = "raised"
    /\ UNCHANGED <<notFetch, pdb_id, fmt, cutShort>>

\* urlretrieve: a block is read and written to the file
WriteBlock ==
    /\ fpc = "read"
    /\ Len(fetched[<<pdb_id, fmt>>]) < Len(Structure)
    /\ fetched' = [fetched EXCEPT ![<<pdb_id, fmt>>] =
                       Append(@, Structure[Len(@) + 1])]
    /\ UNCHANGED <<notFetch, fpc, pdb_id, fmt, fret, cutShort>>

\* urlretrieve: the read or the write raises, or the response ends early
\* (ContentTooShortError): except Exception unlinks the file and raises
RetrieveFails ==
    /\ fpc = "read"
    /\ \E e \in OtherErrors : fret' = <<"raised", e>>
    /\ cutShort' = cutShort \cup {<<pdb_id, fmt>>}
    /\ fetched' = UnlinkIfExists(fetched, <<pdb_id, fmt>>)
    /\ fpc' = "raised"
    /\ UNCHANGED <<notFetch, pdb_id, fmt>>

\* urlretrieve returns: return pdb_path (or cif_path)
RetrieveReturns ==
    /\ fpc = "read"
    /\ fetched[<<pdb_id, fmt>>] = Structure
    /\ fret' = <<"returned", fmt>>
    /\ fpc' = "returned"
    /\ UNCHANGED <<notFetch, pdb_id, fmt, fetched, cutShort>>

------------------------------------------------------------------------------
(* scripts/run_cancer_drivers_modal: main and the run_campaign containers *)

\* the campaign configs _discover_configs finds
Campaigns == 1..MaxCampaigns

\* {"campaigns": {}}: no campaign has a status
NoCampaigns == [c \in Campaigns |-> "none"]

\* the campaigns with status "completed" in a batch state
Completed(campaigns) == {c \in Campaigns : campaigns[c] = "completed"}

InitModal ==
    /\ bpc = "idle"
    /\ reset = FALSE
    /\ runs = 0
    /\ volume = NoCampaigns
    /\ prior_completed = {}
    /\ container = [c \in Campaigns |-> "off"]
    /\ result = [c \in Campaigns |-> "none"]
    /\ state = [c \in Campaigns |-> NoCampaigns]

\* main: _load_batch_state_local(), then --reset or the loop that fills
\* prior_completed
BatchLoad ==
    /\ bpc = "idle"
    /\ runs < MaxRuns
    /\ runs' = runs + 1
    /\ reset' \in BOOLEAN
    /\ IF reset'
       THEN /\ volume' = NoCampaigns
            /\ prior_completed' = {}
            /\ result' = [c \in Campaigns |-> "none"]
       ELSE /\ prior_completed' = Completed(volume)
            /\ UNCHANGED <<volume, result>>
    /\ bpc' = "loaded"
    /\ UNCHANGED <<notModal, container, state>>

\* main: pending_configs is empty, "All campaigns already completed"
BatchAllCompleted ==
    /\ bpc = "loaded"
    /\ Campaigns \ prior_completed = {}
    /\ bpc' = "idle"
    /\ UNCHANGED <<notModal, reset, runs, volume, prior_completed, container, result, state>>

\* main: run_campaign.starmap(config_args) starts a container for every
\* pending campaign
BatchDispatch ==
    /\ bpc = "loaded"
    /\ Campaigns \ prior_completed # {}
    /\ container' = [c \in Campaigns |->
                         IF c \in prior_completed THEN "off" ELSE "running"]
    /\ bpc' = "running"
    /\ UNCHANGED <<notModal, reset, runs, volume, prior_completed, result, state>>

\* run_campaign: the pipeline of the campaign ends, result is built
CampaignEnds(c) ==
    /\ container[c] = "running"
    /\ \E success \in {"ok", "failed"} : result' = [result EXCEPT ![c] = success]
    /\ container' = [container EXCEPT ![c] = "ended"]
    /\ UNCHANGED <<notModal, bpc, reset, runs, volume, prior_completed, state>>

\* run_campaign: state = _load_batch_state_remote(), the reload of the
\* Volume and the read of the file
LoadBatchState(c) ==
    /\ container[c] = "ended"
    /\ state' = [state EXCEPT ![c] = volume]
    /\ container' = [container EXCEPT ![c] = "loaded"]
    /\ UNCHANGED <<notModal, bpc, reset, runs, volume, prior_completed, result>>

\* run_campaign: state["campaigns"][campaign_name] = {...} and
\* _save_batch_state_remote(state): the file is written whole and committed
SaveBatchState(c) ==
    /\ container[c] = "loaded"
    /\ volume' = [state[c] EXCEPT ![c] = IF result[c] = "ok" THEN "completed"
                                         ELSE "failed"]
    /\ container' = [container EXCEPT ![c] = "done"]
    /\ UNCHANGED <<notModal, bpc, reset, runs, prior_completed, result, state>>

\* main: starmap has yielded every result
BatchReturns ==
    /\ bpc = "running"
    /\ \A c \in Campaigns : container[c] \in {"off", "done"}
    /\ container' = [c \in Campaigns |-> "off"]
    /\ bpc' = "idle"
    /\ UNCHANGED <<notModal, reset, runs, volume, prior_completed, result, state>>

------------------------------------------------------------------------------
(* Specifications *)

AnalyzeIdle == analysis = <<>>

MainIdle ==
    /\ mpc = "off"
    /\ command = "none"
    /\ yaml = [doc |-> "missing", f |-> NoFields]
    /\ ret = <<>>

FetchIdle ==
    /\ fpc = "off"
    /\ pdb_id = "1ABC"
    /\ fmt = "pdb"
    /\ fetched = NothingFetched
    /\ fret = <<>>
    /\ cutShort = {}

ModalIdle ==
    /\ bpc = "off"
    /\ reset = FALSE
    /\ runs = 0
    /\ volume = NoCampaigns
    /\ prior_completed = {}
    /\ container = [c \in Campaigns |-> "off"]
    /\ result = [c \in Campaigns |-> "none"]
    /\ state = [c \in Campaigns |-> NoCampaigns]

LocalIdle ==
    /\ lpc = "off"
    /\ n_configs = 0
    /\ max_workers = 1
    /\ cuda = <<>>
    /\ futures = <<>>
    /\ results = <<>>

RestIdle == AnalyzeIdle /\ MainIdle /\ FetchIdle /\ ModalIdle /\ LocalIdle

CodecIdle ==
    /\ qpc = "off"
    /\ qInput = <<>>
    /\ qBatchSize = 1
    /\ qBatches = <<>>
    /\ qMerged = NoFile
    /\ qTotal = 0

ParIdle ==
    /\ num_gpus = 1
    /\ pInput = <<>>
    /\ pfiles = [path \in ChunkPaths |-> NoFile]
    /\ pmerged = NoFile
    /\ ppc = "off"
    /\ NoWorkers
    /\ redispatched = FALSE

OrchIdle ==
    /\ num_designs = 0
    /\ pc = "off"
    /\ FreshWorkDir

CmdIdle ==
    /\ cpc = "off"
    /\ hasTimeout = FALSE
    /\ timeout = 0
    /\ program = "exits"
    /\ exitStatus = 0
    /\ proc = "none"
    /\ toWrite = <<>>
    /\ pipe = <<>>
    /\ stdout_lines = <<>>
    /\ elapsed = 0
    /\ waited = 0
    /\ completed = <<>>
    /\ exc = <<>>
    /\ environ = EmptyEnv
    /\ env = EmptyEnv
    /\ run_env = EmptyEnv

Init == InitOrch /\ CodecIdle /\ ParIdle /\ CmdIdle /\ RestIdle

Next ==
    \/ StartRun
    \/ SkipStage
    \/ BeginStage1
    \/ BeginBatchedStage
    \/ RunUnbatched
    \/ ReuseSplit
    \/ BeginSplit
    \/ SplitFlush
    \/ SplitReturn
    \/ WriteMarker
    \/ SkipBatch
    \/ BeginBatch
    \/ BatchSucceeds
    \/ BatchFails
    \/ SaveBatchCheckpoint
    \/ BeginMerge
    \/ MergeWrite
    \/ MergeReturn
    \/ DirectSucceeds
    \/ DirectFails
    \/ SaveCheckpoint
    \/ KillBetweenWrites
    \/ KillDuringProgram
    \/ KillDuringBatch
    \/ KillDuringFlush
    \/ KillDuringMarker
    \/ KillDuringBatchCheckpoint
    \/ KillDuringCheckpoint
    \/ KillDuringMerge
    \/ ClearStart
    \/ ClearUnlink
    \/ ClearRmtree
    \/ ClearReturn

\* runs, stage failures, kills at any point and complete clear_checkpoints()
Spec == Init /\ [][Next]_vars

\* run() with its stage failures, and clear_checkpoints() with the kills
\* inside it
NextClearKilled ==
    \/ StartRun
    \/ SkipStage
    \/ BeginStage1
    \/ BeginBatchedStage
    \/ RunUnbatched
    \/ ReuseSplit
    \/ BeginSplit
    \/ SplitFlush
    \/ SplitReturn
    \/ WriteMarker
    \/ SkipBatch
    \/ BeginBatch
    \/ BatchSucceeds
    \/ BatchFails
    \/ SaveBatchCheckpoint
    \/ BeginMerge
    \/ MergeWrite
    \/ MergeReturn
    \/ DirectSucceeds
    \/ DirectFails
    \/ SaveCheckpoint
    \/ ClearStart
    \/ ClearUnlink
    \/ ClearRmtree
    \/ ClearReturn
    \/ KillDuringClear
    \/ KillDuringRmtree

\* run() called again after every return, failure and kill, and never
\* clear_checkpoints()
NextReinvoke ==
    \/ StartRun
    \/ SkipStage
    \/ BeginStage1
    \/ BeginBatchedStage
    \/ RunUnbatched
    \/ ReuseSplit
    \/ BeginSplit
    \/ SplitFlush
    \/ SplitReturn
    \/ WriteMarker
    \/ SkipBatch
    \/ BeginBatch
    \/ BatchSucceeds
    \/ BatchFails
    \/ SaveBatchCheckpoint
    \/ BeginMerge
    \/ MergeWrite
    \/ MergeReturn
    \/ DirectSucceeds
    \/ DirectFails
    \/ SaveCheckpoint
    \/ KillBetweenWrites
    \/ KillDuringProgram
    \/ KillDuringBatch
    \/ KillDuringFlush
    \/ KillDuringMarker
    \/ KillDuringBatchCheckpoint
    \/ KillDuringCheckpoint
    \/ KillDuringMerge

\* a step of run() (the call included) other than a stage program failing
RunStep ==
    \/ StartRun
    \/ SkipStage
    \/ BeginStage1
    \/ BeginBatchedStage
    \/ RunUnbatched
    \/ ReuseSplit
    \/ BeginSplit
    \/ SplitFlush
    \/ SplitReturn
    \/ WriteMarker
    \/ SkipBatch
    \/ BeginBatch
    \/ BatchSucceeds
    \/ SaveBatchCheckpoint
    \/ BeginMerge
    \/ MergeWrite
    \/ MergeReturn
    \/ DirectSucceeds
    \/ SaveCheckpoint

\* a stage program fails or the process is killed
Setback ==
    \/ BatchFails
    \/ DirectFails
    \/ KillBetweenWrites
    \/ KillDuringProgram
    \/ KillDuringBatch
    \/ KillDuringFlush
    \/ KillDuringMarker
    \/ KillDuringBatchCheckpoint
    \/ KillDuringCheckpoint
    \/ KillDuringMerge

\* The caller calls run() again whenever it has stopped, a run() that is
\* not killed goes on and every stage program it started terminates; every
\* unit fails, and the process is killed, only finitely often.
FairReinvoke ==
    /\ WF_vars(StartRun)
    /\ []<><<RunStep>>_vars
    /\ <>[][~Setback]_vars

SpecReinvoke == Init /\ [][NextReinvoke]_vars /\ FairReinvoke

\* the smallest campaign with a batched stage
InitSmallCampaign ==
    /\ num_designs = STAGE2_BATCH_SIZE + 1
    /\ pc = "idle"
    /\ FreshWorkDir

InitClearKilled == InitSmallCampaign /\ CodecIdle /\ ParIdle /\ CmdIdle /\ RestIdle

\* the orchestrator whose process is killed inside clear_checkpoints only
SpecClearKilled == InitClearKilled /\ [][NextClearKilled]_vars

\* the runs and kills of the smallest batched campaign, and one rfab analyze
\* between or after them
NextAnalyze ==
    \/ StartRun
    \/ SkipStage
    \/ BeginStage1
    \/ BeginBatchedStage
    \/ RunUnbatched
    \/ ReuseSplit
    \/ BeginSplit
    \/ SplitFlush
    \/ SplitReturn
    \/ WriteMarker
    \/ SkipBatch
    \/ BeginBatch
    \/ BatchSucceeds
    \/ BatchFails
    \/ SaveBatchCheckpoint
    \/ BeginMerge
    \/ MergeWrite
    \/ MergeReturn
    \/ DirectSucceeds
    \/ DirectFails
    \/ SaveCheckpoint
    \/ KillBetweenWrites
    \/ KillDuringProgram
    \/ KillDuringBatch
    \/ KillDuringFlush
    \/ KillDuringMarker
    \/ KillDuringBatchCheckpoint
    \/ KillDuringCheckpoint
    \/ KillDuringMerge
    \/ CmdAnalyze

InitAnalyze == InitSmallCampaign /\ CodecIdle /\ ParIdle /\ CmdIdle /\ RestIdle

SpecAnalyze == InitAnalyze /\ [][NextAnalyze]_vars

NextMain ==
    \/ MainNoCommand
    \/ MainDispatch
    \/ CmdValidate

InitCli ==
    InitMain /\ OrchIdle /\ CodecIdle /\ ParIdle /\ CmdIdle /\ AnalyzeIdle /\ FetchIdle
    /\ ModalIdle /\ LocalIdle

\* one call of main with no command or with validate and any config file
SpecCli == InitCli /\ [][NextMain]_vars

NextFetch ==
    \/ FetchAgain
    \/ AlreadyDownloaded
    \/ BeginDownload
    \/ UrlOpens
    \/ PdbNotFound
    \/ UrlOpenFails
    \/ WriteBlock
    \/ RetrieveFails
    \/ RetrieveReturns

InitFetchPdb ==
    InitFetch /\ OrchIdle /\ CodecIdle /\ ParIdle /\ CmdIdle /\ AnalyzeIdle /\ MainIdle
    /\ ModalIdle /\ LocalIdle

\* calls of fetch_pdb, one after the other, on one output_dir
SpecFetch == InitFetchPdb /\ [][NextFetch]_vars

NextModal ==
    \/ BatchLoad
    \/ BatchAllCompleted
    \/ BatchDispatch
    \/ \E c \in Campaigns : CampaignEnds(c)
    \/ \E c \in Campaigns : LoadBatchState(c)
    \/ \E c \in Campaigns : SaveBatchState(c)
    \/ BatchReturns

InitBatchRunner ==
    InitModal /\ OrchIdle /\ CodecIdle /\ ParIdle /\ CmdIdle /\ AnalyzeIdle /\ MainIdle
    /\ FetchIdle /\ LocalIdle

\* runs of the batch runner, one after the other, the containers of a run in
\* every interleaving
SpecModal == InitBatchRunner /\ [][NextModal]_vars

NextLocal ==
    \/ LocalSubmit
    \/ LocalSubmitted
    \/ WorkerTakes
    \/ \E c \in 0..(MaxConfigs - 1) : CampaignExits(c)
    \/ \E c \in 0..(MaxConfigs - 1) : AsCompleted(c)
    \/ RunParallelReturns

InitRunParallel ==
    InitLocal /\ OrchIdle /\ CodecIdle /\ ParIdle /\ CmdIdle /\ AnalyzeIdle /\ MainIdle
    /\ FetchIdle /\ ModalIdle

\* one call of run_parallel, the campaigns ending in every order
SpecLocal == InitRunParallel /\ [][NextLocal]_vars

NextPar ==
    \/ DispatchSingle
    \/ SingleReturns
    \/ DispatchParallel
    \/ SplitQuiver
    \/ SplitQuiverFails
    \/ StartWorker
    \/ AllStarted
    \/ WorkerSucceeds
    \/ WorkerFails
    \/ JoinWorker
    \/ RaiseFailures
    \/ MergeOutputs

InitParallel == InitPar /\ OrchIdle /\ CodecIdle /\ CmdIdle /\ RestIdle

\* one call of run_stage_parallel in an empty work_dir, the worker threads
\* in every interleaving
SpecPar == InitParallel /\ [][NextPar]_vars

NextParAgain ==
    \/ NextPar
    \/ Redispatch

\* a call of run_stage_parallel and a second one in the work_dir the first
\* one left
SpecParAgain == InitParallel /\ [][NextParAgain]_vars

NextCodec == CodecSplit \/ CodecMerge

\* split of one file, then merge of the batches it returned
InitSplitMerge == InitCodec /\ OrchIdle /\ ParIdle /\ CmdIdle /\ RestIdle

SpecCodec == InitSplitMerge /\ [][NextCodec]_vars

\* merge on the file lists of InitMerge
NextMerge == CodecMerge
InitMergeFiles == InitMerge /\ OrchIdle /\ ParIdle /\ CmdIdle /\ RestIdle
SpecMerge == InitMergeFiles /\ [][NextMerge]_vars

NextCmd ==
    \/ Popen
    \/ ProgramWrites
    \/ ProgramClosesStdout
    \/ ProgramExits
    \/ ReadLine
    \/ ReadUndecodable
    \/ ReadEof
    \/ Tick
    \/ WaitReturns
    \/ WaitTimesOut
    \/ KillAndRaise

InitCommand == InitCmd /\ OrchIdle /\ CodecIdle /\ ParIdle /\ RestIdle

\* one call of run_pipeline_command and its child process
SpecCmd == InitCommand /\ [][NextCmd]_vars

InitCommandEnv == InitCmdEnv /\ OrchIdle /\ CodecIdle /\ ParIdle /\ RestIdle

\* one call of run_pipeline_command, the environment of the calling process
\* and the argument env varying
SpecCmdEnv == InitCommandEnv /\ [][NextCmd]_vars

\* The caller's thread runs whenever it is not blocked, time passes, and a
\* program that is going to write, close its output or exit does so.
SpecCmdFair ==
    /\ SpecCmd
    /\ WF_vars(ReadLine) /\ WF_vars(ReadUndecodable) /\ WF_vars(ReadEof)
    /\ WF_vars(WaitReturns) /\ WF_vars(WaitTimesOut) /\ WF_vars(KillAndRaise)
    /\ WF_vars(Tick)
    /\ WF_vars(ProgramWrites) /\ WF_vars(ProgramClosesStdout) /\ WF_vars(ProgramExits)

------------------------------------------------------------------------------
(* What an uninterrupted run from an empty work directory produces *)

RECURSIVE Uninterrupted(_, _)
Uninterrupted(s, n) ==
    IF s = 1 THEN StageProgram(1, <<>>, n)
    ELSE LET input   == Uninterrupted(s - 1, n)
             batches == split(input, BatchSizeOf(s))
         IN  IF count_entries(input) <= BatchSizeOf(s)
             THEN StageProgram(s, input, n)
             ELSE MergeBytes([k \in 1..Len(batches) |-> StageProgram(s, batches[k], n)])

UninterruptedOutputs ==
    [n \in 0..MaxDesigns |-> [s \in Stages |-> Uninterrupted(s, n)]]

UninterruptedBatches ==
    [n \in 0..MaxDesigns |-> [s \in BatchedStages |->
        IF count_entries(UninterruptedOutputs[n][s - 1]) <= BatchSizeOf(s) THEN {}
        ELSE 0..(Len(split(UninterruptedOutputs[n][s - 1], BatchSizeOf(s))) - 1)]]

ExpectedOutput(s) == UninterruptedOutputs[num_designs][s]

\* the batch numbers of stage s in an uninterrupted run; none when un-batched
ExpectedBatches(s) == UninterruptedBatches[num_designs][s]

IsBatched(s) == ExpectedBatches(s) # {}

\* the batches of stage s whose program this run has started
RanBatches(s) == {u[2] : u \in {v \in ran : v[1] = s}}

\* every unit of work of a run that skips nothing
AllUnits ==
    {<<1, -1>>} \cup
    UNION {IF IsBatched(s) THEN {<<s, b>> : b \in ExpectedBatches(s)} ELSE {<<s, -1>>}
           : s \in BatchedStages}

------------------------------------------------------------------------------
(* C1 *)

\* C1: a run that follows a kill inside the batched part of stage s starts
\* the program of no batch whose checkpoint existed at the kill, and once it
\* is through stage s it has started the program of every other batch and
\* the merged output of stage s is the output of an uninterrupted run.
CrashRecoveryEquivalence ==
    \A s \in BatchedStages :
        resumed = s =>
            /\ RanBatches(s) \cap startBCp[s] = {}
            /\ ((pc = "save" /\ stage = s) \/ Exists(cp[s])) =>
                   /\ RanBatches(s) = ExpectedBatches(s) \ startBCp[s]
                   /\ out[s] = ExpectedOutput(s)

\* a run resumed after a kill in batched stage 2 that found a batch
\* checkpoint, ran the remaining batches and has merged
CrashRecoveryWitness ==
    /\ resumed = 2
    /\ pc = "save"
    /\ stage = 2
    /\ startBCp[2] # {}
    /\ RanBatches(2) # {}

------------------------------------------------------------------------------
(* C2 *)

\* the three files .checkpoint_stage1, _stage2, _stage3 are in the work directory
AllCheckpointed == \A s \in Stages : cp[s] # "none"

\* C2: once all three stage checkpoints exist, no step of a later run() starts
\* a stage program, splits or merges, and the three output collections stay
\* as they are.
ResumeIdempotence ==
    [][AllCheckpointed => (ran' \subseteq ran /\ ops' \subseteq ops /\ out' = out)]_vars

\* a run() that returned having found all three checkpoints
ResumeIdempotenceWitness ==
    /\ pc = "returned"
    /\ startCp = Stages
    /\ ran = {}
    /\ ops = {}
    /\ num_designs > STAGE3_BATCH_SIZE

------------------------------------------------------------------------------
(* C4 *)

\* C4: a stage-level checkpoint of stage 2 or 3 exists only with the stage's
\* complete output; for a batched stage every batch then has a checkpoint,
\* for an un-batched one the single execution returned success.
StageCheckpointImpliesComplete ==
    \A s \in BatchedStages :
        Exists(cp[s]) =>
            /\ out[s] = ExpectedOutput(s)
            /\ IF count_entries(InputOf(s)) > BatchSizeOf(s)
               THEN bdir[s] /\ \A b \in ExpectedBatches(s) : Exists(bCp[s][b])
               ELSE s \in succeeded

\* stage 2 checkpointed after a batched run, stage 3 after an un-batched one
StageCheckpointWitness ==
    /\ Exists(cp[2]) /\ Exists(cp[3])
    /\ IsBatched(2) /\ ~IsBatched(3)

------------------------------------------------------------------------------
(* C5 *)

InRun == pc \in RunPcs \cup {"returned", "failed", "crashed"}

\* the first stage without a checkpoint when this run began (4: none)
FirstMissing ==
    IF startCp = Stages THEN 4
    ELSE CHOOSE s \in Stages \ startCp : \A r \in Stages \ startCp : s <= r

\* the stages this run did not skip
Entered == {s \in Stages : <<"enter", s>> \in ops}

\* C5: a program of stage N+1 is started only when the checkpoint of stage N
\* exists; a failed stage ends run() with no checkpoint of that stage and no
\* later stage started; a run starts at the first stage without a checkpoint.
StagesInOrder ==
    /\ InRun => \A u \in ran : u[1] > 1 => Exists(cp[u[1] - 1])
    /\ (pc \in RunPcs \ {"check"} /\ stage > 1) => Exists(cp[stage - 1])
    /\ pc = "failed" => ~Exists(cp[stage]) /\ \A u \in ran : u[1] <= stage
    /\ Entered # {} => /\ FirstMissing \in Entered
                       /\ \A s \in Entered : s >= FirstMissing
    /\ \A u \in ran : u[1] \in Entered

\* a run that began at stage 2, stage 1 being checkpointed, and failed there
StagesInOrderWitness ==
    /\ pc = "failed"
    /\ stage = 2
    /\ startCp = {1}
    /\ ran # {}

------------------------------------------------------------------------------
(* C6 *)

\* C6: when clear_checkpoints() has returned no stage checkpoint, batch
\* checkpoint, split marker or batch directory is left, and the run() that
\* follows it starts every stage and every batch and splits again.
ClearForcesFullRerun ==
    /\ pc = "cleared" =>
          /\ \A s \in Stages : ~Exists(cp[s])
          /\ \A s \in BatchedStages :
                /\ ~bdir[s]
                /\ ~Exists(marker[s])
                /\ \A b \in BatchNumbers : ~Exists(bCp[s][b]) /\ bIn[s][b] = NoFile
    /\ (pc = "returned" /\ coldStart # "no") =>
          /\ ran = AllUnits
          /\ \A s \in BatchedStages : IsBatched(s) => <<"split", s>> \in ops

\* a run that returned after a clear_checkpoints() that had found all three
\* output collections on disk, with both stages batched
ClearForcesFullRerunWitness ==
    /\ pc = "returned"
    /\ coldStart = "full"
    /\ IsBatched(2) /\ IsBatched(3)

------------------------------------------------------------------------------
(* C3 *)

\* C3 (as claimed): for every collection and every batch_size >= 1, merging
\* the batches that split returned, in index order, writes a file whose
\* bytes equal the bytes of the collection.
SplitMergeRoundTrip ==
    qpc = "merged" => qMerged = qInput

\* The round trip of the collections whose only line terminator is "\n",
\* the case in which text mode translates nothing.
SplitMergeRoundTripLF ==
    (qpc = "merged" /\ \A k \in DOMAIN qInput : qInput[k] # CR) => qMerged = qInput

\* a collection of three records split into two batches and merged, one of
\* its lines ending in "\r\n"
SplitMergeCarriageReturn ==
    /\ qpc = "merged"
    /\ Len(qBatches) = 2
    /\ \E k \in DOMAIN qInput : qInput[k] = CR

------------------------------------------------------------------------------
(* C7 *)

FailedWorkers == {g \in 0..(Len(threads) - 1) : threads[g + 1] = "failed"}

\* C7: when a dispatch with W > 1 ends in failure, the error names the index
\* of every failed worker exactly once and the dispatch has not opened the
\* merged file.
ParallelAllOrNothing ==
    (ppc = "raised" /\ threads # <<>>) =>
        /\ FailedWorkers # {}
        /\ {perror[1][k] : k \in DOMAIN perror[1]} = FailedWorkers
        /\ Len(perror[1]) = Cardinality(FailedWorkers)
        /\ ~mergedNow

\* a dispatch in which both workers failed, the second one first
ParallelAllOrNothingWitness ==
    /\ ppc = "raised"
    /\ ~redispatched
    /\ Cardinality(FailedWorkers) = 2
    /\ finishOrder = <<1, 0>>

------------------------------------------------------------------------------
(* C8 *)

\* C8: when every worker of a dispatch succeeded, the merged file is the
\* outputs of worker 0, 1, ..., W-1 in that order, whatever the order in
\* which the workers finished.
MergedInWorkerOrder ==
    (ppc = "returned" /\ threads # <<>>) =>
        pmerged = Concat([k \in 1..Len(threads) |-> produced[k]])

\* a merge after worker 1 finished before worker 0, their outputs differing
MergedInWorkerOrderWitness ==
    /\ ppc = "returned"
    /\ ~redispatched
    /\ finishOrder = <<1, 0>>
    /\ produced[1] # produced[2]
    /\ produced[2] # <<>>

------------------------------------------------------------------------------
(* C9 *)

\* C9: a dispatch with W > 1 reports, by return or by error, only when one
\* worker per chunk has been started and every one of them has finished.
WaitsForAllWorkers ==
    (ppc \in {"returned", "raised"} /\ chunks # <<>>) =>
        /\ Len(threads) = Len(chunks)
        /\ \A k \in 1..Len(threads) : threads[k] # "running"

\* a failed dispatch whose worker 0 failed before worker 1 finished with
\* success
WaitsForAllWorkersWitness ==
    /\ ppc = "raised"
    /\ ~redispatched
    /\ finishOrder = <<0, 1>>
    /\ threads = <<"failed", "ok">>

------------------------------------------------------------------------------
(* C10 *)

\* C10 (as claimed): a call with a timeout of a program that never exits
\* ends with the child killed and a timeout error; it does not block for
\* ever.
TimeoutTerminatesCall ==
    (hasTimeout /\ program # "exits" /\ cpc = "reading")
        ~> (cpc = "raised_timeout" /\ proc = "killed")

\* The same for the programs that close their output before they hang: the
\* case the timeout of proc.wait covers.
TimeoutAfterEof ==
    (hasTimeout /\ program = "hangs_closed" /\ cpc = "reading"
        /\ Decodable(JoinLines(pipe \o toWrite)))
        ~> (cpc = "raised_timeout" /\ proc = "killed")

\* the call with a timeout still in its read loop, the clock past the
\* timeout and the program alive with its output open
BlockedPastTimeout ==
    /\ hasTimeout
    /\ program = "hangs_open"
    /\ cpc = "reading"
    /\ pipe = <<>> /\ toWrite = <<>>
    /\ elapsed > timeout

------------------------------------------------------------------------------
(* C11 *)

\* the call has ended and the program has exited of its own
ExitedAndOver ==
    /\ proc = "exited"
    /\ cpc \in {"returned", "raised_error", "raised_timeout", "raised_decode"}

\* what the exit status makes of the call: the captured output returned with
\* return code 0 exactly for status 0, and for any other status an error
\* with the label, the status and the last TAIL_CHARS characters at most
StatusDecides ==
    /\ cpc = "returned" => (exitStatus = 0 /\ completed = <<0, stdout_text>>)
    /\ exitStatus = 0 => cpc = "returned"
    /\ exitStatus # 0 =>
          /\ cpc = "raised_error"
          /\ exc = <<"RuntimeError", Label, exitStatus,
                     LastChars(stdout_text, TAIL_CHARS)>>
          /\ Len(exc[4]) <= TAIL_CHARS

\* C11 (as claimed): whatever the program writes, a call whose program has
\* exited returned the captured output iff the status is 0 and raised the
\* error with label, status and output tail otherwise.
ExitStatusDecidesCall == ExitedAndOver => StatusDecides

\* The same for the programs whose output is text.
ExitStatusDecidesTextCall ==
    (ExitedAndOver /\ exc # <<"UnicodeDecodeError">>) => StatusDecides

\* a program that exited with status 0 and a call that raised on its output
ExitZeroNotReturned ==
    /\ proc = "exited"
    /\ exitStatus = 0
    /\ cpc = "raised_decode"

\* an error whose tail cuts the captured output
ErrorTailCut ==
    /\ cpc = "raised_error"
    /\ Len(stdout_text) > TAIL_CHARS

------------------------------------------------------------------------------
(* C12 *)

\* the files handed to merge by the batched stage that is running
MergeListFiles == [k \in 1..n_batches |-> bOut[stage][k - 1]]

RECURSIVE SumEntries(_)
SumEntries(files) ==
    IF files = <<>> THEN 0
    ELSE (IF Head(files) = NoFile THEN 0 ELSE count_entries(Head(files)))
         + SumEntries(Tail(files))

\* C12 (as claimed): a batched stage reaches the write of its stage
\* checkpoint only after a merge whose every listed batch output existed and
\* whose merged record count is the sum of the batch outputs' counts.
MergeIntegrity ==
    (pc = "save" /\ <<"merge", stage>> \in ops) =>
        /\ \A k \in 1..n_batches : MergeListFiles[k] # NoFile
        /\ count_entries(out[stage]) = SumEntries(MergeListFiles)

\* a merge that skipped a missing batch output, and the stage checkpoint
\* about to be written
MergeSkippedMissing ==
    /\ pc = "save"
    /\ <<"merge", stage>> \in ops
    /\ \E k \in 1..n_batches : MergeListFiles[k] = NoFile

------------------------------------------------------------------------------
(* C13 *)

\* the failure details the raised error carries
DetailsCarried == {perror[2]}

\* C13 (as claimed): the error of a failed dispatch carries the detail of
\* every failed worker.
EveryFailureDetailCarried ==
    (ppc = "raised" /\ threads # <<>>) =>
        \A g \in FailedWorkers : WorkerError(g) \in DetailsCarried

\* a failed dispatch of two failed workers whose error carries one detail
OneDetailOfTwo ==
    /\ ppc = "raised"
    /\ Cardinality(FailedWorkers) = 2
    /\ Cardinality(DetailsCarried) = 1

------------------------------------------------------------------------------
(* C14 *)

\* C14: in every step outside clear_checkpoints() a stage or batch
\* checkpoint that exists stays as it is, and a checkpoint write is reached
\* only for a checkpoint that does not exist.
CheckpointsMonotonic ==
    [][pc # "clear" =>
         /\ \A s \in Stages : cp[s] # "none" => cp'[s] = cp[s]
         /\ \A s \in BatchedStages, b \in BatchNumbers :
               bCp[s][b] # "none" => bCp'[s][b] = bCp[s][b]
         /\ pc = "save" => cp[stage] = "none"
         /\ pc = "bsave" => bCp[stage][i] = "none"]_vars

\* a run that returned having found the checkpoint of stage 1 cut short by
\* a kill and batch checkpoints of stage 2, and having run a batch
CheckpointsMonotonicWitness ==
    /\ pc = "returned"
    /\ cp[1] = "partial"
    /\ startBCp[2] # {}
    /\ RanBatches(2) # {}

------------------------------------------------------------------------------
(* C15 *)

\* C15 (as claimed): rfab analyze proceeds to the analysis, the step that
\* depends on stage 3, only when the checkpoint of stage 3 is present; that
\* 03_predictions.qv exists does not make it proceed.
AnalysisNeedsCheckpoint ==
    (analysis # <<>> /\ analysis[1] = "ran") => analysis[3] # "none"

\* the analysis ran on a predictions file cut short by a kill
AnalysedPartialPredictions ==
    /\ analysis # <<>>
    /\ analysis[1] = "ran"
    /\ analysis[2] # ExpectedOutput(3)

------------------------------------------------------------------------------
(* C16 *)

\* the child has been started with run_env
Started == cpc # "idle"

\* C16 (as claimed): the environment given to the program is the ambient
\* environment with the overrides on top: every variable of the overrides
\* has the caller's value, every other variable has its ambient value (and
\* is absent when the ambient environment does not have it).
EnvIsAmbientWithOverrides ==
    Started =>
        \A n \in EnvNames :
            run_env[n] = IF env[n] # Unset THEN env[n] ELSE environ[n]

\* C16 (amended): every variable of the overrides has the caller's value;
\* every other variable has its ambient value, except HYDRA_FULL_ERROR,
\* which is "1" whatever the ambient environment says.
EnvIsAmbientWithHydraAndOverrides ==
    Started =>
        \A n \in EnvNames :
            run_env[n] = IF env[n] # Unset THEN env[n]
                         ELSE IF n = "HYDRA_FULL_ERROR" THEN "1"
                         ELSE environ[n]

\* a call that overrides one ambient variable, keeps the other and runs in
\* an ambient environment that sets HYDRA_FULL_ERROR to "0"
EnvMergedWitness ==
    /\ Started
    /\ environ["CUDA_VISIBLE_DEVICES"] = "0"
    /\ env["CUDA_VISIBLE_DEVICES"] = "1"
    /\ environ["HYDRA_FULL_ERROR"] = "0"
    /\ env["HYDRA_FULL_ERROR"] = Unset
    /\ run_env["CUDA_VISIBLE_DEVICES"] = "1"

------------------------------------------------------------------------------
(* C17 *)

\* the file holds a mapping that names the campaign and passes validate()
LoadsAndValidates(y) ==
    /\ y.doc = "mapping"
    /\ y.f.hasName
    /\ ValidateErrors(y.f) = {}

\* C17 (as claimed): main returns an exit code and never raises: 1 without
\* a command; with validate and a config file that exists, 0 when the file
\* loads and validates and 1 when it does not, the empty file and the file
\* that holds no mapping included.
MainReturnsExitCode ==
    mpc = "done" =>
        /\ command = "none" => ret = <<"returned", 1>>
        /\ (command = "validate" /\ yaml.doc # "missing") =>
              ret = <<"returned", IF LoadsAndValidates(yaml) THEN 0 ELSE 1>>

\* validate of an empty file leaves main with an exception
EmptyFileRaises ==
    /\ mpc = "done"
    /\ command = "validate"
    /\ yaml.doc = "empty"
    /\ ret[1] = "raised"

------------------------------------------------------------------------------
(* C18 *)

\* C18: when a call of fetch_pdb has ended with an error after its
\* urlretrieve had created the {pdb_id}.pdb or {pdb_id}.cif file, that file
\* is gone; and a file a call returns, downloaded now or found "already
\* downloaded", is the whole structure.
NoPartialDownloadLeft ==
    /\ (fpc = "raised" /\ <<pdb_id, fmt>> \in cutShort) =>
           fetched[<<pdb_id, fmt>>] = NoFile
    /\ fpc = "returned" => fetched[<<pdb_id, fret[2]>>] = Structure

\* a call returns a file whose earlier download was cut short by an error
ReturnedAfterCutShort ==
    /\ fpc = "returned"
    /\ <<pdb_id, fret[2]>> \in cutShort

------------------------------------------------------------------------------
(* C19 *)

\* C19 (as claimed): between the runs every campaign whose latest container
\* finished successfully has status "completed" in the batch state on the
\* Volume, whatever the interleaving of the containers; and a run without
\* --reset skips exactly the campaigns with that status.
RunnerIdempotent ==
    /\ bpc = "idle" =>
           \A c \in Campaigns : result[c] = "ok" => volume[c] = "completed"
    /\ (bpc = "loaded" /\ ~reset) => prior_completed = Completed(volume)

\* a run is over, a campaign finished successfully and has no status
CompletedCampaignLost ==
    /\ bpc = "idle"
    /\ \E c \in Campaigns : result[c] = "ok" /\ volume[c] = "none"

------------------------------------------------------------------------------
(* C20 *)

\* the batches of the stage in hand whose program this run has started
StartedBatches == RanBatches(stage)

\* the program of batch i is being started
BatchProgramStarts == pc = "loop" /\ pc' = "brun"

\* the program of batch i has failed and the failure has left run()
BatchFailed == pc = "failed" /\ i \in StartedBatches

\* C20: in one run of a batched stage a batch's program is started only if
\* the batch has no checkpoint, has not been started in this run, every
\* batch started before has a lower index and every lower batch has its
\* checkpoint; the step in which a batch fails ends the run and writes no
\* checkpoint; and after it the failed batch has no checkpoint, no later
\* batch has been started and the stage has neither merge nor checkpoint.
BatchesInOrderAtMostOnce ==
    /\ [][/\ BatchProgramStarts =>
               /\ bCp[stage][i] = "none"
               /\ i \notin StartedBatches
               /\ \A b \in StartedBatches : b < i
               /\ \A b \in 0..(i - 1) : bCp[stage][b] # "none"
          /\ (pc = "brun" /\ pc' \notin {"brun", "bsave", "crashed"}) =>
               /\ pc' = "failed"
               /\ bCp' = bCp
               /\ ran' = ran
               /\ ops' = ops]_vars
    /\ [](BatchFailed =>
             /\ bCp[stage][i] = "none"
             /\ \A b \in StartedBatches : b <= i
             /\ <<"merge", stage>> \notin ops
             /\ cp[stage] = "none")

\* batch 0 ran and got its checkpoint, then batch 1 failed
SecondBatchFailed ==
    /\ BatchFailed
    /\ i = 1
    /\ 0 \in StartedBatches
    /\ bCp[stage][0] = "written"

------------------------------------------------------------------------------
(* C21 *)

\* the batch files of stage s are those a split of the stage's input writes
SplitOnDisk(s) ==
    LET batches == split(InputOf(s), BatchSizeOf(s))
    IN  \A b \in BatchNumbers :
            bIn[s][b] = IF b < Len(batches) THEN batches[b + 1] ELSE NoFile

\* _run_batched_stage has decided between the existing split and a new one
SplitDecided == pc = "count" /\ pc' \in {"loop", "split"}

\* C21: a step that writes the marker of a stage finds every batch file of
\* the split written; a run that finds the marker does not split, takes the
\* batch files there are, and index i is batch file i of the split of the
\* stage's input; a run that finds no marker splits the stage's input.
SplitMarkerProtocol ==
    /\ [][/\ \A s \in BatchedStages :
                 (marker'[s] # marker[s] /\ marker'[s] # "none") => SplitOnDisk(s)
          /\ (SplitDecided /\ marker[stage] # "none" /\ bdir[stage]) =>
                 /\ pc' = "loop"
                 /\ ops' = ops
                 /\ bIn' = bIn
          /\ (SplitDecided /\ ~(marker[stage] # "none" /\ bdir[stage])) =>
                 /\ pc' = "split"
                 /\ <<"split", stage>> \in ops']_vars
    /\ [](pc \in {"loop", "brun", "bsave"} =>
             /\ SplitOnDisk(stage)
             /\ \A k \in 1..n_batches : batch_inputs[k] = k - 1
             /\ n_batches = Len(split(InputOf(stage), BatchSizeOf(stage))))

\* a run resumed after a kill in the batch loop goes through the batches of
\* the split it found
ResumedOnExistingSplit ==
    /\ pc = "loop"
    /\ resumed = stage
    /\ <<"split", stage>> \notin ops
    /\ n_batches >= 2
    /\ startBCp[stage] # {}

------------------------------------------------------------------------------
(* C22 *)

\* the start loop of a dispatch with W > 1 is over
AllLaunched == num_gpus > 1 /\ ppc = "join"

\* C22 (as claimed): a dispatch with W > 1, a second dispatch in the same
\* work_dir included, launches W executions; worker k has
\* CUDA_VISIBLE_DEVICES = k, reads the k-th chunk qvsplit wrote in this
\* dispatch and writes to a path of its own.
ExactlyWExecutions ==
    AllLaunched =>
        /\ Len(threads) = num_gpus
        /\ \A k \in 1..Len(threads) :
              /\ devices[k] = k - 1
              /\ chunks[k] = <<k - 1, 0>>
              /\ \A j \in 1..Len(threads) : j # k => outputs[j] # outputs[k]

\* a second dispatch has launched more than W executions, one of them on
\* an output file of the first dispatch
StaleOutputDispatched ==
    /\ AllLaunched
    /\ redispatched
    /\ Len(threads) > num_gpus
    /\ \E k \in 1..Len(chunks) : chunks[k][2] > 0

------------------------------------------------------------------------------
(* C23 *)

\* ceil(n / d) for d >= 1
CeilDiv(n, d) == (n + d - 1) \div d

\* C23: for a collection of n >= 1 records and batch_size >= 1, split returns
\* ceil(n / batch_size) batches; read in the order of the returned list they
\* are the lines of the collection in input order, every batch but the last
\* holds exactly batch_size records and the last one between 1 and
\* batch_size.
SplitBatchSizes ==
    (qpc \in {"split", "merged"} /\ count_entries(qInput) >= 1) =>
        /\ Len(qBatches) = CeilDiv(count_entries(qInput), qBatchSize)
        /\ Concat(qBatches) = ReadText(qInput)
        /\ \A b \in 1..(Len(qBatches) - 1) : count_entries(qBatches[b]) = qBatchSize
        /\ count_entries(qBatches[Len(qBatches)]) \in 1..qBatchSize

\* three records split with batch_size 2: a full batch and a last batch of
\* one record
SplitLastBatchPartial ==
    /\ qpc = "split"
    /\ count_entries(qInput) = 3
    /\ qBatchSize = 2
    /\ Len(qBatches) = 2

------------------------------------------------------------------------------
(* C24 *)

\* C24 (as claimed): for every list of input files, files written in part
\* or without a final line terminator included, the value merge returns is
\* the number of records of the file it wrote, count_entries(output_path).
MergeReturnsCount ==
    qpc = "merged" => qTotal = count_entries(qMerged)

\* merge of two files, the first without a final line terminator and the
\* second starting with a tag: the tag of the second is not at the start of
\* a line of the output
MergedAcrossMissingTerminator ==
    /\ qpc = "merged"
    /\ Len(qBatches) = 2
    /\ qBatches[1] # NoFile /\ qBatches[1] # <<>>
    /\ ReadText(qBatches[1])[Len(ReadText(qBatches[1]))] # LF
    /\ StartsWithTag(qBatches[2])
    /\ qTotal > count_entries(qMerged)

------------------------------------------------------------------------------
(* C25 *)

\* C25 (as claimed): split on a collection without any tag line returns an
\* empty batch list and writes no batch file.
SplitZeroRecordsNoBatch ==
    (qpc \in {"split", "merged"} /\ count_entries(qInput) = 0) => qBatches = <<>>

\* split on a file of lines none of which is a tag line: one batch file of
\* zero records
SplitWroteBatchWithoutRecord ==
    /\ qpc = "split"
    /\ count_entries(qInput) = 0
    /\ Len(qBatches) = 1
    /\ count_entries(qBatches[1]) = 0

------------------------------------------------------------------------------
(* C26 *)

\* C26 (as claimed): a checkpoint file that a kill left partially written is
\* not taken as 'completed' by a later run: a run that returns has entered
\* every stage whose checkpoint file is partial, and in every batched stage
\* it entered it has run every batch whose checkpoint file is partial.
CheckpointWriteAllOrNothing ==
    pc = "returned" =>
        /\ \A s \in Stages : cp[s] = "partial" => <<"enter", s>> \in ops
        /\ \A s \in BatchedStages, b \in BatchNumbers :
              (<<"enter", s>> \in ops /\ bdir[s] /\ bCp[s][b] = "partial")
                  => <<s, b>> \in ran

------------------------------------------------------------------------------
(* C27 *)

\* C27: a step changes the output collection of a stage only inside a run,
\* only that of the stage the run is at (so the input of the stage, the
\* output of the stage before it, is left as it is, whether the stage runs
\* directly, batched, in split or in merge), and only while the checkpoint
\* of that stage does not exist; clear_checkpoints() changes none, and no
\* step deletes one.
InputsNeverMutated ==
    [][\A s \in Stages :
          /\ out'[s] # out[s] =>
                /\ pc \notin {"clear"} \cup Stopped
                /\ s = stage
                /\ ~Exists(cp[s])
          /\ out[s] # NoFile => out'[s] # NoFile]_vars

\* a run that followed a clear_checkpoints() on a directory holding the
\* three output collections and ran stage 2 in batches up to its merge
RerunAfterClearMerged ==
    /\ pc = "returned"
    /\ coldStart = "full"
    /\ <<"merge", 2>> \in ops
    /\ \A s \in Stages : out[s] # NoFile

------------------------------------------------------------------------------
(* C28 *)

\* C28 (as claimed): outside a clear_checkpoints() in progress, whatever the
\* runs, failures, kills (a kill inside clear_checkpoints() included) and
\* clears before, the checkpoint of stage k+1 exists only if the checkpoint
\* of stage k exists.
CheckpointsPrefixClosed ==
    pc # "clear" => \A k \in 1..2 : Exists(cp[k + 1]) => Exists(cp[k])

\* a run that returned having run stage 1 again and skipped a later stage
\* on the checkpoint an interrupted clear_checkpoints() had left
LaterStageSkippedAfterRerun ==
    /\ pc = "returned"
    /\ <<"enter", 1>> \in ops
    /\ \E s \in BatchedStages : <<"enter", s>> \notin ops

------------------------------------------------------------------------------
(* C29 *)

AllStagesCheckpointed == \A s \in Stages : _checkpoint_exists(s)

\* C29: when run() is called again after every failure and kill, every
\* stage program terminates and every unit fails only finitely often, the
\* three stage checkpoints exist from some point on; and no step of a run
\* starts a stage whose checkpoint exists or a batch whose checkpoint exists.
ProgressUnderReinvocation ==
    /\ <>[]AllStagesCheckpointed
    /\ [][\A u \in ran' \ ran :
             /\ ~Exists(cp[u[1]])
             /\ u[2] # -1 => ~Exists(bCp[u[1]][u[2]])]_vars

\* all three checkpoints exist at the return of a run that followed a kill
\* inside the batch loop of stage 2, found a batch checkpoint and ran the
\* batches without one
ReinvokedToCompletion ==
    /\ pc = "returned"
    /\ AllStagesCheckpointed
    /\ resumed = 2
    /\ startBCp[2] # {}
    /\ \E b \in BatchNumbers : <<2, b>> \in ran

------------------------------------------------------------------------------
(* C30 *)

\* C30 (as claimed): in run_parallel with --parallel N, no two campaigns
\* that are running at the same time have the same CUDA_VISIBLE_DEVICES,
\* whatever the order in which the campaigns finish.
NoSharedDevice ==
    \A c \in Running, d \in Running : c # d => cuda[c + 1] # cuda[d + 1]

\* campaign N, given device 0 like campaign 0, runs while campaign 0 is
\* still running, a later campaign having finished first
DeviceSharedAfterEarlyFinish ==
    /\ {0, max_workers} \subseteq Running
    /\ cuda[1] = cuda[max_workers + 1]
    /\ \E c \in 1..(max_workers - 1) : futures[c + 1] \in {"finished", "done"}

=============================================================================
